---- MODULE Spec2Model ----
(***************************************************************************)
(* keifu: the commit graph layout engine (src/src/git/graph.rs).           *)
(*                                                                         *)
(* build_graph is modelled as a state machine that walks the commit list   *)
(* row by row: BuildStart (the maps and the empty-input return),           *)
(* SelectLaneStep (lane selection, the active-lane snapshot, freeing the   *)
(* row's own lane), RouteParentStep (one iteration of the parent loop) and *)
(* FinishRow (max_lane, branch names, HEAD flag, nodes.push).              *)
(*                                                                         *)
(* Lanes and rows are 0-based as in the source; a Vec is a TLA+ sequence,  *)
(* so lane l lives at position l + 1.                                      *)
(*                                                                         *)
(* ColorAssigner (src/src/graph/colors.rs) is modelled next to it, one     *)
(* action per public method.  An Option<usize> is the empty sequence or a  *)
(* sequence of one number.  The f64 penalties are kept exact as integers,  *)
(* every weight multiplied by PenaltyScale.                                *)
(*                                                                         *)
(* App (src/src/app.rs) is modelled last, one action per arm of its        *)
(* action handlers; build_graph is an operator there (BuildGraph), and the *)
(* repository is the environment of the App.                               *)
(***************************************************************************)
EXTENDS Integers, Sequences, FiniteSets, TLC

\* Bounds of the model: commits in the window, parents per commit.
MaxCommits == 3
MaxParents == 2
\* Bounds of the ColorAssigner runs: lanes 0..MaxColorLane, rows
\* 0..MaxRow, at most MaxAssign colours handed out, reserve_color called
\* with the MaxReserve highest colours of the palette.
MaxColorLane == 1
MaxRow == 1
MaxAssign == 2
MaxReserve == 11
\* Bound of the long runs of assignments on one lane: colours handed out.
MaxLongRun == 7
\* Bound of the App runs: characters typed into the input dialog.
MaxInput == 1

\* LANE_COLORS.len()
PaletteSize == 11
MAIN_BRANCH_COLOR == 9
\* ColorAssigner::new: history_window
history_window == 6

\* Option::None of a lane slot (Vec<Option<Oid>>); oids are 1, 2, ...
None == 0
\* Option::None of Iterator::position
NoPos == -1

VARIABLES
    window,                 \* how many commits the revwalk yields
    commits,                \* input: Vec<CommitInfo>, newest first
    branches,               \* input: Vec<BranchInfo>
    head,                   \* the repository's HEAD
    prev_layout,            \* the layout an earlier build returned, if any
    pc,                     \* position in build_graph
    row,                    \* the loop's row index
    parent_idx,             \* the parent loop's index
    active_lanes,           \* Vec<Option<Oid>>
    lane,                   \* the current row's lane
    active_lanes_snapshot,  \* the current row's Vec<bool>
    connections,            \* the current row's Vec<Connection>
    nodes,                  \* Vec<GraphNode>
    max_lane,
    max_pending,            \* history: most lanes pending at a row boundary
    lane_colors,            \* ColorAssigner: Vec<Option<usize>>
    lane_last_color,        \* Vec<usize>
    next_color_index,
    reserved_colors,        \* HashSet<usize>
    recent_assignments,     \* VecDeque<(row, lane, color)>
    current_row,
    current_fork_colors,    \* HashSet<usize>
    color_usage_count,      \* [usize; 11]
    main_lane,              \* Option<usize>
    returned,               \* the last ColorAssigner call and what it returned
    mode,                   \* App: AppMode
    graph_layout,           \* App: GraphLayout
    selected,               \* App: graph_list_state.selected()
    should_quit,            \* App: bool
    handled                 \* the last action handled, whether it was Ok, and
                            \* the selection a navigation action started from

graphVars == <<window, commits, branches, head, prev_layout, pc, row, parent_idx, active_lanes, lane,
               active_lanes_snapshot, connections, nodes, max_lane, max_pending>>

colorVars == <<lane_colors, lane_last_color, next_color_index, reserved_colors,
               recent_assignments, current_row, current_fork_colors,
               color_usage_count, main_lane, returned>>

appVars == <<mode, graph_layout, selected, should_quit, handled>>

vars == <<graphVars, colorVars, appVars>>

----------------------------------------------------------------------------
(* Helpers *)

Max(a, b) == IF a >= b THEN a ELSE b

SetMin(S) == CHOOSE x \in S : \A y \in S : x <= y

SetMax(S) == CHOOSE x \in S : \A y \in S : x >= y

\* iter().position(|l| l == v): 0-based index of the first slot equal to v
PositionOf(lanes, v) ==
    LET hits == {i \in 1..Len(lanes) : lanes[i] = v}
    IN  IF hits = {} THEN NoPos ELSE SetMin(hits) - 1

\* oid_to_row: HashMap<Oid, usize> (a later insertion of the same key wins)
OidToRow(cs) ==
    [o \in {cs[i].oid : i \in DOMAIN cs} |->
        SetMax({i \in DOMAIN cs : cs[i].oid = o}) - 1]

InWindow(cs, oid) == oid \in DOMAIN OidToRow(cs)

\* the names pushed in front: insert(0, name) for push(name)
RECURSIVE BranchNamesOfReversed(_, _)
BranchNamesOfReversed(bs, oid) ==
    IF bs = <<>> THEN <<>>
    ELSE BranchNamesOfReversed(Tail(bs), oid)
         \o (IF Head(bs).tip_oid = oid THEN <<Head(bs).name>> ELSE <<>>)

\* oid_to_branches.get(oid).cloned().unwrap_or_default()
RECURSIVE BranchNamesOf(_, _)
BranchNamesOf(bs, oid) ==
    IF bs = <<>> THEN <<>>
    ELSE (IF Head(bs).tip_oid = oid THEN <<Head(bs).name>> ELSE <<>>)
         \o BranchNamesOf(Tail(bs), oid)

\* head_oid: the tip of the last branch flagged is_head, if any
HeadOid(bs) ==
    LET heads == {i \in DOMAIN bs : bs[i].is_head}
    IN  IF heads = {} THEN None ELSE bs[SetMax(heads)].tip_oid

----------------------------------------------------------------------------
(* Lane selection for a commit *)

SelectLaneAlwaysAppend(lanes, oid) ==
    LET existing == PositionOf(lanes, oid)
    IN  IF existing # NoPos
        THEN [lane |-> existing, lanes |-> lanes]
        ELSE [lane |-> Len(lanes), lanes |-> Append(lanes, None)]

SelectLaneIgnoreExisting(lanes, oid) ==
    IF Len(lanes) = 0 \/ lanes[1] = None
    THEN [lane |-> 0, lanes |-> IF Len(lanes) = 0 THEN <<None>> ELSE lanes]
    ELSE LET empty_lane == PositionOf(lanes, None)
         IN  IF empty_lane # NoPos
             THEN [lane |-> empty_lane, lanes |-> lanes]
             ELSE [lane |-> Len(lanes), lanes |-> Append(lanes, None)]

SelectLaneZero(lanes, oid) ==
    LET existing == PositionOf(lanes, oid)
    IN  IF existing # NoPos
        THEN [lane |-> existing, lanes |-> lanes]
        ELSE [lane |-> 0, lanes |-> IF Len(lanes) = 0 THEN <<None>> ELSE lanes]

SelectLane(lanes, oid) ==
    LET existing == PositionOf(lanes, oid)
    IN  IF existing # NoPos
        THEN [lane |-> existing, lanes |-> lanes]
        ELSE IF Len(lanes) = 0 \/ lanes[1] = None
             THEN [lane |-> 0,
                   lanes |-> IF Len(lanes) = 0 THEN <<None>> ELSE lanes]
             ELSE LET empty_lane == PositionOf(lanes, None)
                  IN  IF empty_lane # NoPos
                      THEN [lane |-> empty_lane, lanes |-> lanes]
                      ELSE [lane |-> Len(lanes), lanes |-> Append(lanes, None)]

(* The row's active-lane snapshot *)

SnapshotLeftOfLane(lanes, l) ==
    [i \in 1..l |-> lanes[i] # None]

\* active_lanes_snapshot[lane] = true left out
SnapshotWithoutOwnLane(lanes, l) ==
    [i \in 1..Max(Len(lanes), l + 1) |->
        IF i <= Len(lanes) THEN lanes[i] # None ELSE FALSE]

Snapshot(lanes, l) ==
    LET n == Max(Len(lanes), l + 1)
        padded == [i \in 1..n |-> IF i <= Len(lanes) THEN lanes[i] # None
                                  ELSE FALSE]
    IN  [padded EXCEPT ![l + 1] = TRUE]

(* Routing of one parent *)

ParentTargetAlwaysAppend(lanes, l, idx, parent_oid) ==
    LET pl == PositionOf(lanes, parent_oid)
    IN  IF pl # NoPos
        THEN [target_lane |-> pl, lanes |-> lanes]
        ELSE IF idx = 0
             THEN [target_lane |-> l,
                   lanes |-> [lanes EXCEPT ![l + 1] = parent_oid]]
             ELSE [target_lane |-> Len(lanes),
                   lanes |-> Append(lanes, parent_oid)]

\* the lane that already holds the parent not looked for
ParentTargetIgnoreExisting(lanes, l, idx, parent_oid) ==
    IF idx = 0
    THEN [target_lane |-> l, lanes |-> [lanes EXCEPT ![l + 1] = parent_oid]]
    ELSE LET empty == PositionOf(lanes, None)
             new_lane == IF empty # NoPos THEN empty ELSE Len(lanes)
             grown == IF empty # NoPos THEN lanes ELSE Append(lanes, None)
         IN  [target_lane |-> new_lane,
              lanes |-> [grown EXCEPT ![new_lane + 1] = parent_oid]]

ParentTarget(lanes, l, idx, parent_oid) ==
    LET pl == PositionOf(lanes, parent_oid)
    IN  IF pl # NoPos
        THEN [target_lane |-> pl, lanes |-> lanes]
        ELSE IF idx = 0
             THEN [target_lane |-> l,
                   lanes |-> [lanes EXCEPT ![l + 1] = parent_oid]]
             ELSE LET empty == PositionOf(lanes, None)
                      new_lane == IF empty # NoPos THEN empty ELSE Len(lanes)
                      grown == IF empty # NoPos THEN lanes
                               ELSE Append(lanes, None)
                  IN  [target_lane |-> new_lane,
                       lanes |-> [grown EXCEPT ![new_lane + 1] = parent_oid]]

ConnectionTypeSwapped(l, target_lane) ==
    IF l = target_lane THEN "Direct"
    ELSE IF target_lane > l THEN "MergeIn"
    ELSE "BranchOut"

ConnectionTypeOf(l, target_lane) ==
    IF l = target_lane THEN "Direct"
    ELSE IF target_lane > l THEN "BranchOut"
    ELSE "MergeIn"

\* contains_key without the window test
ParentInWindowAlways(cs, parent_oid) == TRUE

\* oid_to_row.contains_key(parent_oid)
ParentInWindow(cs, parent_oid) == InWindow(cs, parent_oid)

\* nodes.insert(0, node)
PushNodeFront(ns, node) == <<node>> \o ns

\* nodes.push(node)
PushNode(ns, node) == Append(ns, node)

\* max_lane = max_lane.max(lane) left out
RowMaxLaneForgotten(m, l) == m

\* the number of lanes counted instead of the largest index
RowMaxLaneAsWidth(m, l) == Max(m, l + 1)

\* max_lane = max_lane.max(lane)
RowMaxLane(m, l) == Max(m, l)

----------------------------------------------------------------------------
(* Inputs: what get_commits and get_branches can return *)

\* parent lists of the commit at position i of a window of n commits: each
\* parent is a later commit of the window or a commit outside it (n + 1)
ParentLists(i, n) ==
    UNION {[1..k -> (i + 1)..(n + 1)] : k \in 0..MaxParents}

\* the i-th commit the revwalk yields: the walk is topological (children
\* before parents) and yields every oid once
WalkCommits(i, n) ==
    {[oid |-> i, parent_oids |-> ps] : ps \in ParentLists(i, n)}

HasChild(cs, oid) ==
    \E i \in DOMAIN cs : \E k \in DOMAIN cs[i].parent_oids :
        cs[i].parent_oids[k] = oid

\* the walk starts from the branch tips, so every commit without a child is
\* the tip of a branch; list_all puts the HEAD branch first
RECURSIVE TipBranches(_, _)
TipBranches(cs, i) ==
    IF i > Len(cs) THEN <<>>
    ELSE (IF HasChild(cs, cs[i].oid) THEN <<>>
          ELSE <<[name |-> "b" \o ToString(i), tip_oid |-> cs[i].oid,
                  is_head |-> (i = 1), is_remote |-> FALSE]>>)
         \o TipBranches(cs, i + 1)

\* HEAD names a branch that has no commit yet: repo.head() fails
UnbornHead == [kind |-> "unborn", name |-> "main", oid |-> None]

\* the branch names of the repository, in the order list_all sorts them
RefNames == <<"dev", "main", "origin/main">>

\* BranchType::Remote
IsRemoteName(name) == name = "origin/main"

\* the refs of a repository whose walk yields n commits: some of the names,
\* each at a commit of the window or at one outside it (n + 1)
RefSets(n) ==
    UNION {[names -> 1..(n + 1)] :
             names \in SUBSET {RefNames[i] : i \in DOMAIN RefNames}}

\* HEAD: on a local branch, detached at a commit, or unborn
HeadsOf(refs, n) ==
    {[kind |-> "branch", name |-> nm, oid |-> refs[nm]] :
        nm \in {x \in DOMAIN refs : ~IsRemoteName(x)}}
    \cup {[kind |-> "detached", name |-> "HEAD", oid |-> o] : o \in 1..(n + 1)}
    \cup {UnbornHead}

\* is_head of a local branch: HEAD's target and shorthand are the branch's
IsHeadBranch(refs, h, name) ==
    /\ ~IsRemoteName(name)
    /\ h.kind # "unborn"
    /\ h.oid = refs[name]
    /\ h.name = name

\* the branches of refs selected by Keep, in the order of RefNames
RECURSIVE BranchesFrom(_, _, _, _)
BranchesFrom(refs, h, i, keepHead) ==
    IF i > Len(RefNames) THEN <<>>
    ELSE (IF /\ RefNames[i] \in DOMAIN refs
             /\ IsHeadBranch(refs, h, RefNames[i]) = keepHead
          THEN <<[name |-> RefNames[i], tip_oid |-> refs[RefNames[i]],
                  is_head |-> IsHeadBranch(refs, h, RefNames[i]),
                  is_remote |-> IsRemoteName(RefNames[i])]>>
          ELSE <<>>)
         \o BranchesFrom(refs, h, i + 1, keepHead)

\* BranchInfo::list_all: local then remote branches, sorted HEAD first and
\* then by name
ListAllOf(refs, h) ==
    BranchesFrom(refs, h, 1, TRUE) \o BranchesFrom(refs, h, 1, FALSE)

----------------------------------------------------------------------------
(* build_graph *)

Init ==
    /\ window \in 0..MaxCommits
    /\ commits = <<>>
    /\ branches = <<>>
    /\ head = UnbornHead
    /\ prev_layout = <<>>
    /\ pc = "get_commits"
    /\ row = 0
    /\ parent_idx = 0
    /\ active_lanes = <<>>
    /\ lane = 0
    /\ active_lanes_snapshot = <<>>
    /\ connections = <<>>
    /\ nodes = <<>>
    /\ max_lane = 0
    /\ max_pending = 0
    /\ lane_colors = <<>>
    /\ lane_last_color = <<>>
    /\ next_color_index = 0
    /\ reserved_colors = {}
    /\ recent_assignments = <<>>
    /\ current_row = 0
    /\ current_fork_colors = {}
    /\ color_usage_count = [c \in 0..(PaletteSize - 1) |-> 0]
    /\ main_lane = <<>>
    /\ returned = [op |-> "unit", lane |-> <<>>, color |-> <<>>,
                   held |-> <<>>]
    /\ mode = [kind |-> "Normal", action |-> "", name |-> "", input |-> <<>>]
    /\ graph_layout = [nodes |-> <<>>, max_lane |-> 0]
    /\ selected = <<0>>
    /\ should_quit = FALSE
    /\ handled = [action |-> "", ok |-> TRUE, from |-> <<>>]

\* GitRepository::get_commits: one iteration of the revwalk loop
FetchCommit ==
    /\ pc = "get_commits"
    /\ Len(commits) < window
    /\ \E c \in WalkCommits(Len(commits) + 1, window) :
          commits' = Append(commits, c)
    /\ UNCHANGED <<window, branches, head, prev_layout, pc, row, parent_idx, active_lanes, lane,
                   active_lanes_snapshot, connections, nodes, max_lane,
                   max_pending>>
    /\ UNCHANGED <<colorVars, appVars>>

\* GitRepository::get_branches, once the walk has ended
GetBranches ==
    /\ pc = "get_commits"
    /\ Len(commits) = window
    /\ branches' = TipBranches(commits, 1)
    /\ head' = IF commits = <<>> THEN UnbornHead
               ELSE [kind |-> "branch", name |-> "b1", oid |-> commits[1].oid]
    /\ pc' = "start"
    /\ UNCHANGED <<window, commits, prev_layout, row, parent_idx, active_lanes, lane,
                   active_lanes_snapshot, connections, nodes, max_lane,
                   max_pending>>
    /\ UNCHANGED <<colorVars, appVars>>

\* history only: how many lanes hold a pending parent
PendingCount(lanes) == Cardinality({i \in DOMAIN lanes : lanes[i] # None})

\* a layout that claims one lane more
EmptyLayoutWide == [nodes |-> <<>>, max_lane |-> 1]

\* GraphLayout { nodes: Vec::new(), max_lane: 0 }
EmptyLayout == [nodes |-> <<>>, max_lane |-> 0]

\* the lane vector of an earlier build kept
FreshLanesKept(old) == old

\* let mut active_lanes = Vec::new()
FreshLanes(old) == <<>>

\* lines 53-85: the empty-input return, the maps, the empty state
BuildStart ==
    /\ pc = "start"
    /\ \/ /\ commits = <<>>
          /\ nodes' = EmptyLayout.nodes
          /\ max_lane' = EmptyLayout.max_lane
          /\ pc' = "done"
       \/ /\ commits # <<>>
          /\ nodes' = <<>>
          /\ max_lane' = 0
          /\ pc' = "select"
    /\ active_lanes' = FreshLanes(active_lanes)
    /\ row' = 0
    /\ max_pending' = 0
    /\ UNCHANGED <<window, commits, branches, head, prev_layout, parent_idx,
                   lane, active_lanes_snapshot, connections>>
    /\ UNCHANGED <<colorVars, appVars>>

\* lines 85-127: select the lane, take the snapshot, free the lane
SelectLaneStep ==
    /\ pc = "select"
    /\ LET commit == commits[row + 1]
           sel == SelectLane(active_lanes, commit.oid)
       IN  /\ lane' = sel.lane
           /\ active_lanes_snapshot' = Snapshot(sel.lanes, sel.lane)
           /\ active_lanes' = [sel.lanes EXCEPT ![sel.lane + 1] = None]
    /\ connections' = <<>>
    /\ parent_idx' = 0
    /\ pc' = "route"
    /\ UNCHANGED <<window, commits, branches, head, prev_layout, row, nodes, max_lane, max_pending>>
    /\ UNCHANGED <<colorVars, appVars>>

\* lines 128-171: one iteration of the parent loop
RouteParentStep ==
    /\ pc = "route"
    /\ parent_idx < Len(commits[row + 1].parent_oids)
    /\ LET parent_oid == commits[row + 1].parent_oids[parent_idx + 1]
       IN  \/ /\ ParentInWindow(commits, parent_oid)
              /\ LET r == ParentTarget(active_lanes, lane, parent_idx, parent_oid)
                 IN  /\ active_lanes' = r.lanes
                     /\ connections' = Append(connections,
                            [target_oid |-> parent_oid,
                             source_lane |-> lane,
                             target_lane |-> r.target_lane,
                             connection_type |->
                                 ConnectionTypeOf(lane, r.target_lane)])
                     /\ max_lane' = Max(max_lane, r.target_lane)
           \/ /\ ~ParentInWindow(commits, parent_oid)
              /\ UNCHANGED <<active_lanes, connections, max_lane>>
    /\ parent_idx' = parent_idx + 1
    /\ UNCHANGED <<window, commits, branches, head, prev_layout, pc, row, lane, active_lanes_snapshot,
                   nodes, max_pending>>
    /\ UNCHANGED <<colorVars, appVars>>

\* lines 173-192: max_lane, branch names, HEAD flag, nodes.push
FinishRow ==
    /\ pc = "route"
    /\ parent_idx = Len(commits[row + 1].parent_oids)
    /\ LET commit == commits[row + 1]
           head_oid == HeadOid(branches)
       IN  nodes' = PushNode(nodes,
               [commit |-> commit,
                lane |-> lane,
                row |-> row,
                connections |-> connections,
                active_lanes |-> active_lanes_snapshot,
                branch_names |-> BranchNamesOf(branches, commit.oid),
                is_head |-> (head_oid # None /\ head_oid = commit.oid)])
    /\ max_lane' = RowMaxLane(max_lane, lane)
    /\ max_pending' = Max(max_pending, PendingCount(active_lanes))
    /\ row' = row + 1
    /\ pc' = IF row + 1 = Len(commits) THEN "done" ELSE "select"
    /\ UNCHANGED <<window, commits, branches, head, prev_layout, parent_idx, active_lanes, lane,
                   active_lanes_snapshot, connections>>
    /\ UNCHANGED <<colorVars, appVars>>

\* get_commits on a repository whose history is one chain that goes on
\* beyond the window
FetchLinearCommit ==
    /\ pc = "get_commits"
    /\ Len(commits) < window
    /\ commits' = Append(commits,
           [oid |-> Len(commits) + 1, parent_oids |-> <<Len(commits) + 2>>])
    /\ UNCHANGED <<window, branches, head, prev_layout, pc, row, parent_idx,
                   active_lanes, lane, active_lanes_snapshot, connections,
                   nodes, max_lane, max_pending>>
    /\ UNCHANGED <<colorVars, appVars>>

\* get_branches on any refs and HEAD; the walk starts from the branch tips,
\* so the newest commit is one (an empty commit slice goes with any branch
\* slice: build_graph is public)
ListAll ==
    /\ pc = "get_commits"
    /\ Len(commits) = window
    /\ \E refs \in RefSets(window) : \E h \in HeadsOf(refs, window) :
          /\ window >= 1 => \E nm \in DOMAIN refs : refs[nm] = 1
          /\ branches' = ListAllOf(refs, h)
          /\ head' = h
    /\ pc' = "start"
    /\ UNCHANGED <<window, commits, prev_layout, row, parent_idx,
                   active_lanes, lane, active_lanes_snapshot, connections,
                   nodes, max_lane, max_pending>>
    /\ UNCHANGED <<colorVars, appVars>>

\* App::refresh on a repository that has not changed: the same commits and
\* branches are fetched and the layout is built again
RefreshUnchanged ==
    /\ pc = "done"
    /\ prev_layout' = <<[nodes |-> nodes, max_lane |-> max_lane]>>
    /\ pc' = "start"
    /\ UNCHANGED <<window, commits, branches, head, row, parent_idx,
                   active_lanes, lane, active_lanes_snapshot, connections,
                   nodes, max_lane, max_pending>>
    /\ UNCHANGED <<colorVars, appVars>>

Next ==
    \/ FetchCommit
    \/ GetBranches
    \/ BuildStart
    \/ SelectLaneStep
    \/ RouteParentStep
    \/ FinishRow

Spec == Init /\ [][Next]_vars

\* the labels of the rows: a chain of commits under any branches and HEAD
NextBranches ==
    \/ FetchLinearCommit
    \/ ListAll
    \/ BuildStart
    \/ SelectLaneStep
    \/ RouteParentStep
    \/ FinishRow

SpecBranches == Init /\ [][NextBranches]_vars

\* the layout built again and again from one snapshot
NextRebuild ==
    \/ Next
    \/ RefreshUnchanged

SpecRebuild == Init /\ [][NextRebuild]_vars

----------------------------------------------------------------------------
(* ColorAssigner *)

Palette == 0..(PaletteSize - 1)

ColorLanes == 0..MaxColorLane

\* reserve_color is called with the highest colours of the palette, from
\* the top down and with a colour not reserved yet: the reserved colours
\* are MAIN_BRANCH_COLOR and the colours above some index
ReserveInputs ==
    {c \in Palette \ reserved_colors :
        /\ c >= PaletteSize - MaxReserve
        /\ \A d \in Palette : d > c => d \in reserved_colors}

Abs(x) == IF x < 0 THEN -x ELSE x

RECURSIVE Fact(_)
Fact(n) == IF n <= 1 THEN 1 ELSE n * Fact(n - 1)

\* a common multiple of every divisor the penalties meet within the bounds:
\* lane distance + 1, row distance + 1, and the largest usage count
PenaltyScale ==
    Fact(MaxColorLane + 1) * Fact(MaxRow + 1)
        * Fact(Max(MaxAssign, MaxLongRun))

\* what a call without a return value leaves in returned; held is the
\* colour the lane of an assigning or releasing call held when called
Unit == [op |-> "unit", lane |-> <<>>, color |-> <<>>, held |-> <<>>]

\* ensure_capacity: push until the lane has a slot
EnsureCapacity(vec, l, fill) ==
    IF Len(vec) > l THEN vec
    ELSE vec \o [i \in 1..(l + 1 - Len(vec)) |-> fill]

\* get_lane_color_index: None beyond the vector
GetLaneColorIndex(cols, l) ==
    IF l < Len(cols) THEN cols[l + 1] ELSE <<>>

\* 1. the lane's last colour
LastColorPenalty(lasts, l, c) ==
    IF lasts[l + 1] = c THEN 10 * PenaltyScale ELSE 0

\* 2. the active lanes, 8 / (lane distance + 1) each; n lanes are summed
RECURSIVE ActiveLanePenalty(_, _, _, _)
ActiveLanePenalty(cols, l, c, n) ==
    IF n = 0 THEN 0
    ELSE ActiveLanePenalty(cols, l, c, n - 1)
         + (IF cols[n] = <<c>>
            THEN (8 * PenaltyScale) \div (Abs(l - (n - 1)) + 1)
            ELSE 0)

\* 3. the recent assignments, (4 / (row distance + 1)) * (2 / (lane
\* distance + 1)) each; the row distance is a saturating subtraction
RECURSIVE HistoryPenalty(_, _, _, _, _)
HistoryPenalty(hist, cur, l, c, n) ==
    IF n = 0 THEN 0
    ELSE HistoryPenalty(hist, cur, l, c, n - 1)
         + (IF hist[n].color = c
            THEN (8 * PenaltyScale)
                    \div ((Max(cur - hist[n].row, 0) + 1)
                          * (Abs(l - hist[n].lane) + 1))
            ELSE 0)

\* the fork siblings' colours are not penalised
ForkPenaltyNone(forks, is_fork_sibling, c) == 0

\* 4. the colours of the row's fork siblings
ForkPenalty(forks, is_fork_sibling, c) ==
    IF is_fork_sibling /\ c \in forks THEN 100 * PenaltyScale ELSE 0

\* 5. the usage counts, (count / max_usage) * 2
UsagePenalty(usage, c) ==
    LET max_usage == SetMax({usage[k] : k \in Palette})
    IN  IF max_usage > 0 THEN (2 * PenaltyScale * usage[c]) \div max_usage
        ELSE 0

\* color_penalties[c], times PenaltyScale
ColorPenalty(cols, lasts, l, is_fork_sibling, c) ==
    LastColorPenalty(lasts, l, c)
    + ActiveLanePenalty(cols, l, c, Len(cols))
    + HistoryPenalty(recent_assignments, current_row, l, c,
                     Len(recent_assignments))
    + ForkPenalty(current_fork_colors, is_fork_sibling, c)
    + UsagePenalty(color_usage_count, c)

\* no colour is skipped
IsSkippedNever(c, use_reserved) == FALSE

\* the scan skips the reserved colours unless use_reserved
IsSkipped(c, use_reserved) == ~use_reserved /\ c \in reserved_colors

\* the scan keeps the last of the candidates with the least penalty
RECURSIVE ScanPaletteKeepsLast(_, _, _, _, _)
ScanPaletteKeepsLast(pens, use_reserved, k, best_color, best_penalty) ==
    IF k = PaletteSize THEN best_color
    ELSE LET color_idx == (next_color_index + k) % PaletteSize
         IN  IF IsSkipped(color_idx, use_reserved)
             THEN ScanPaletteKeepsLast(pens, use_reserved, k + 1, best_color,
                                       best_penalty)
             ELSE IF best_penalty = <<>> \/ pens[color_idx] <= best_penalty[1]
             THEN ScanPaletteKeepsLast(pens, use_reserved, k + 1, color_idx,
                                       <<pens[color_idx]>>)
             ELSE ScanPaletteKeepsLast(pens, use_reserved, k + 1, best_color,
                                       best_penalty)

\* the scan of the palette from next_color_index: candidate k onwards, with
\* the best colour so far; best_penalty is <<>> for f64::MAX, which every
\* penalty is below
RECURSIVE ScanPalette(_, _, _, _, _)
ScanPalette(pens, use_reserved, k, best_color, best_penalty) ==
    IF k = PaletteSize THEN best_color
    ELSE LET color_idx == (next_color_index + k) % PaletteSize
         IN  IF IsSkipped(color_idx, use_reserved)
             THEN ScanPalette(pens, use_reserved, k + 1, best_color,
                              best_penalty)
             ELSE IF best_penalty = <<>> \/ pens[color_idx] < best_penalty[1]
             THEN ScanPalette(pens, use_reserved, k + 1, color_idx,
                              <<pens[color_idx]>>)
             ELSE ScanPalette(pens, use_reserved, k + 1, best_color,
                              best_penalty)

\* the history is never cut
PushHistoryUnbounded(hist, entry) == Append(hist, entry)

\* the history keeps the last history_window entries
PushHistory(hist, entry) ==
    LET pushed == Append(hist, entry)
    IN  IF Len(pushed) > history_window
        THEN SubSeq(pushed, Len(pushed) - history_window + 1, Len(pushed))
        ELSE pushed

\* the rotation pointer stays on the chosen colour
NextAfterSame(c) == c

\* next_color_index after colour c was chosen
NextAfter(c) == (c + 1) % PaletteSize

RECURSIVE SumUsage(_, _)
SumUsage(usage, n) ==
    IF n = 0 THEN 0 ELSE usage[n - 1] + SumUsage(usage, n - 1)

\* the runs hand out at most MaxAssign colours
MayAssign == SumUsage(color_usage_count, PaletteSize) < MaxAssign

\* assign_color_advanced, called as op
AssignColorAdvanced(l, is_fork_sibling, use_reserved, op) ==
    LET cols == EnsureCapacity(lane_colors, l, <<>>)
        lasts == EnsureCapacity(lane_last_color, l, 0)
        pens == [c \in Palette |->
                    ColorPenalty(cols, lasts, l, is_fork_sibling, c)]
    IN  \E best_color \in {ScanPalette(pens, use_reserved, 0,
                                       next_color_index, <<>>)} :
          /\ lane_colors' = [cols EXCEPT ![l + 1] = <<best_color>>]
          /\ lane_last_color' = [lasts EXCEPT ![l + 1] = best_color]
          /\ next_color_index' = NextAfter(best_color)
          /\ recent_assignments' =
                 PushHistory(recent_assignments,
                     [row |-> current_row, lane |-> l, color |-> best_color])
          /\ color_usage_count' =
                 [color_usage_count EXCEPT ![best_color] = @ + 1]
          /\ current_fork_colors' =
                 IF is_fork_sibling
                 THEN current_fork_colors \cup {best_color}
                 ELSE current_fork_colors
          /\ returned' = [op |-> op, lane |-> <<l>>,
                          color |-> <<best_color>>, held |-> cols[l + 1]]
          /\ UNCHANGED <<reserved_colors, current_row, main_lane>>

AssignColor ==
    /\ MayAssign
    /\ \E l \in ColorLanes :
          AssignColorAdvanced(l, FALSE, FALSE, "assign_color")
    /\ UNCHANGED <<graphVars, appVars>>

AssignForkSiblingColor ==
    /\ MayAssign
    /\ \E l \in ColorLanes :
          AssignColorAdvanced(l, TRUE, FALSE, "assign_fork_sibling_color")
    /\ UNCHANGED <<graphVars, appVars>>

AssignMainColor ==
    /\ MayAssign
    /\ \E l \in ColorLanes :
          LET cols == EnsureCapacity(lane_colors, l, <<>>)
              lasts == EnsureCapacity(lane_last_color, l, 0)
              color == MAIN_BRANCH_COLOR
          IN  /\ lane_colors' = [cols EXCEPT ![l + 1] = <<color>>]
              /\ lane_last_color' = [lasts EXCEPT ![l + 1] = color]
              /\ reserved_colors' = reserved_colors \cup {color}
              /\ main_lane' = <<l>>
              /\ color_usage_count' =
                     [color_usage_count EXCEPT ![color] = @ + 1]
              /\ returned' = [op |-> "assign_main_color", lane |-> <<l>>,
                              color |-> <<color>>, held |-> <<>>]
    /\ UNCHANGED <<next_color_index, recent_assignments, current_row,
                   current_fork_colors>>
    /\ UNCHANGED <<graphVars, appVars>>

\* the colour the lane holds not looked at
ContinueLaneColorForgotten(l) ==
    IF main_lane = <<l>> THEN <<MAIN_BRANCH_COLOR>> ELSE <<>>

\* what continue_lane returns without assigning: <<>> when it has to assign
ContinueLaneColor(l) ==
    IF main_lane = <<l>> THEN <<MAIN_BRANCH_COLOR>>
    ELSE GetLaneColorIndex(lane_colors, l)

ContinueLane ==
    /\ \E l \in ColorLanes :
          \/ /\ main_lane = <<l>>
             /\ returned' = [op |-> "continue_lane", lane |-> <<l>>,
                             color |-> ContinueLaneColor(l), held |-> <<>>]
             /\ UNCHANGED <<lane_colors, lane_last_color, next_color_index,
                            reserved_colors, recent_assignments, current_row,
                            current_fork_colors, color_usage_count, main_lane>>
          \/ /\ main_lane # <<l>>
             /\ ContinueLaneColor(l) # <<>>
             /\ returned' = [op |-> "continue_lane", lane |-> <<l>>,
                             color |-> ContinueLaneColor(l), held |-> <<>>]
             /\ UNCHANGED <<lane_colors, lane_last_color, next_color_index,
                            reserved_colors, recent_assignments, current_row,
                            current_fork_colors, color_usage_count, main_lane>>
          \/ /\ main_lane # <<l>>
             /\ ContinueLaneColor(l) = <<>>
             /\ MayAssign
             /\ AssignColorAdvanced(l, FALSE, FALSE, "continue_lane")
    /\ UNCHANGED <<graphVars, appVars>>

\* the lane's last colour forgotten with its colour
ReleasedForgetsLast(cols, lasts, main, l) ==
    IF l < Len(cols) /\ main # <<l>>
    THEN [lane_colors |-> [cols EXCEPT ![l + 1] = <<>>],
          lane_last_color |-> [lasts EXCEPT ![l + 1] = 0]]
    ELSE [lane_colors |-> cols, lane_last_color |-> lasts]

\* the main lane released like any other
ReleasedAlsoMain(cols, lasts, main, l) ==
    IF l < Len(cols)
    THEN [lane_colors |-> [cols EXCEPT ![l + 1] = <<>>],
          lane_last_color |-> lasts]
    ELSE [lane_colors |-> cols, lane_last_color |-> lasts]

\* release_lane: the two lane vectors after it
Released(cols, lasts, main, l) ==
    IF l < Len(cols) /\ main # <<l>>
    THEN [lane_colors |-> [cols EXCEPT ![l + 1] = <<>>],
          lane_last_color |-> lasts]
    ELSE [lane_colors |-> cols, lane_last_color |-> lasts]

ReleaseLane ==
    /\ \E l \in ColorLanes :
          LET r == Released(lane_colors, lane_last_color, main_lane, l)
          IN  /\ lane_colors' = r.lane_colors
              /\ lane_last_color' = r.lane_last_color
              /\ returned' = [op |-> "release_lane", lane |-> <<l>>,
                              color |-> <<>>,
                              held |-> GetLaneColorIndex(lane_colors, l)]
    /\ UNCHANGED <<next_color_index, reserved_colors,
                   recent_assignments, current_row, current_fork_colors,
                   color_usage_count, main_lane>>
    /\ UNCHANGED <<graphVars, appVars>>

\* the row advanced with the fork-sibling set kept
AdvanceRowKeepsForkColors ==
    /\ current_row < MaxRow
    /\ current_row' = current_row + 1
    /\ returned' = Unit
    /\ UNCHANGED <<lane_colors, lane_last_color, next_color_index,
                   reserved_colors, recent_assignments, color_usage_count,
                   main_lane, current_fork_colors>>
    /\ UNCHANGED <<graphVars, appVars>>

AdvanceRow ==
    /\ current_row < MaxRow
    /\ current_row' = current_row + 1
    /\ current_fork_colors' = {}
    /\ returned' = Unit
    /\ UNCHANGED <<lane_colors, lane_last_color, next_color_index,
                   reserved_colors, recent_assignments, color_usage_count,
                   main_lane>>
    /\ UNCHANGED <<graphVars, appVars>>

BeginFork ==
    /\ current_fork_colors' = {}
    /\ returned' = Unit
    /\ UNCHANGED <<lane_colors, lane_last_color, next_color_index,
                   reserved_colors, recent_assignments, current_row,
                   color_usage_count, main_lane>>
    /\ UNCHANGED <<graphVars, appVars>>

ReserveColor ==
    /\ \E c \in ReserveInputs :
          /\ reserved_colors' = reserved_colors \cup {c}
          /\ returned' = Unit
    /\ UNCHANGED <<lane_colors, lane_last_color, next_color_index,
                   recent_assignments, current_row, current_fork_colors,
                   color_usage_count, main_lane>>
    /\ UNCHANGED <<graphVars, appVars>>

\* one ColorAssigner, any calls in any order (the layout engine idle)
InitColor == Init /\ window = 0

NextColor ==
    \/ AssignColor
    \/ AssignForkSiblingColor
    \/ AssignMainColor
    \/ ContinueLane
    \/ ReleaseLane
    \/ AdvanceRow
    \/ BeginFork
    \/ ReserveColor

SpecColor == InitColor /\ [][NextColor]_vars

\* the long runs hand out at most MaxLongRun colours
MayAssignLong == SumUsage(color_usage_count, PaletteSize) < MaxLongRun

\* the long runs: one lane assigned over and over, row after row
AssignColorLong ==
    /\ MayAssignLong
    /\ AssignColorAdvanced(0, FALSE, FALSE, "assign_color")
    /\ UNCHANGED <<graphVars, appVars>>

AssignForkSiblingColorLong ==
    /\ MayAssignLong
    /\ AssignColorAdvanced(0, TRUE, FALSE, "assign_fork_sibling_color")
    /\ UNCHANGED <<graphVars, appVars>>

NextLongRun ==
    \/ AssignColorLong
    \/ AssignForkSiblingColorLong
    \/ AdvanceRow
    \/ BeginFork

SpecLongRun == InitColor /\ [][NextLongRun]_vars

----------------------------------------------------------------------------
(* App: the application state and its action handlers (src/src/app.rs).    *)
(* commits, branches and head are the App's own copies of the last        *)
(* snapshot; the repository is the environment: a fetch returns any of    *)
(* RepoViews or fails, an operation on it succeeds or fails.              *)

builderVars == <<window, prev_layout, pc, row, parent_idx, active_lanes, lane,
                 active_lanes_snapshot, connections, nodes, max_lane,
                 max_pending>>

NormalMode == [kind |-> "Normal", action |-> "", name |-> "", input |-> <<>>]

HelpMode == [kind |-> "Help", action |-> "", name |-> "", input |-> <<>>]

\* AppMode::Input { input, action: InputAction::CreateBranch }
InputMode(input) ==
    [kind |-> "Input", action |-> "CreateBranch", name |-> "",
     input |-> input]

\* AppMode::Confirm { action: ConfirmAction::<action>(name) }
ConfirmMode(action, name) ==
    [kind |-> "Confirm", action |-> action, name |-> name, input |-> <<>>]

\* a history of n commits in one chain that goes on beyond the window
LinearCommits(n) ==
    [i \in 1..n |-> [oid |-> i, parent_oids |-> <<i + 1>>]]

\* the refs of such a repository: every tip is in the window and the walk
\* starts from a tip; main is at the newest commit and the remote branch
\* at the oldest, dev is anywhere
RepoRefs(n) ==
    {refs \in RefSets(n) :
        /\ \A nm \in DOMAIN refs : refs[nm] <= n
        /\ n >= 1 => \E nm \in DOMAIN refs : refs[nm] = 1
        /\ "main" \in DOMAIN refs => refs["main"] = 1
        /\ \A nm \in DOMAIN refs : IsRemoteName(nm) => refs[nm] = n}

\* HEAD is on main when there is a main, and detached at the newest commit
\* otherwise
RepoHead(refs, n) ==
    IF "main" \in DOMAIN refs
    THEN [kind |-> "branch", name |-> "main", oid |-> refs["main"]]
    ELSE IF n = 0 THEN UnbornHead
    ELSE [kind |-> "detached", name |-> "HEAD", oid |-> 1]

\* what get_commits, get_branches and head_name return together
RepoViews ==
    UNION {{[commits |-> LinearCommits(n),
             branches |-> ListAllOf(refs, RepoHead(refs, n)),
             head |-> RepoHead(refs, n)] : refs \in RepoRefs(n)} :
           n \in 0..MaxCommits}

\* build_graph, lines 128-171: the parent loop from parent idx on; st holds
\* active_lanes, the row's connections and max_lane
RECURSIVE RouteParents(_, _, _, _, _)
RouteParents(cs, commit, l, idx, st) ==
    IF idx = Len(commit.parent_oids) THEN st
    ELSE LET parent_oid == commit.parent_oids[idx + 1]
         IN  IF ParentInWindow(cs, parent_oid)
             THEN LET r == ParentTarget(st.lanes, l, idx, parent_oid)
                  IN  RouteParents(cs, commit, l, idx + 1,
                          [lanes |-> r.lanes,
                           connections |-> Append(st.connections,
                               [target_oid |-> parent_oid,
                                source_lane |-> l,
                                target_lane |-> r.target_lane,
                                connection_type |->
                                    ConnectionTypeOf(l, r.target_lane)]),
                           max_lane |-> Max(st.max_lane, r.target_lane)])
             ELSE RouteParents(cs, commit, l, idx + 1, st)

\* build_graph, lines 85-192: the rows from row r on
RECURSIVE BuildRows(_, _, _, _, _, _)
BuildRows(cs, bs, r, lanes, ns, m) ==
    IF r = Len(cs) THEN [nodes |-> ns, max_lane |-> m]
    ELSE LET commit == cs[r + 1]
             sel == SelectLane(lanes, commit.oid)
             st == RouteParents(cs, commit, sel.lane, 0,
                       [lanes |-> [sel.lanes EXCEPT ![sel.lane + 1] = None],
                        connections |-> <<>>,
                        max_lane |-> m])
             head_oid == HeadOid(bs)
         IN  BuildRows(cs, bs, r + 1, st.lanes,
                 PushNode(ns,
                     [commit |-> commit,
                      lane |-> sel.lane,
                      row |-> r,
                      connections |-> st.connections,
                      active_lanes |-> Snapshot(sel.lanes, sel.lane),
                      branch_names |-> BranchNamesOf(bs, commit.oid),
                      is_head |-> (head_oid # None /\ head_oid = commit.oid)]),
                 RowMaxLane(st.max_lane, sel.lane))

\* build_graph(commits, branches)
BuildGraph(cs, bs) ==
    IF cs = <<>> THEN EmptyLayout
    ELSE BuildRows(cs, bs, 0, FreshLanes(<<>>), <<>>, 0)

\* usize::saturating_sub
SaturatingSub(a, b) == IF a > b THEN a - b ELSE 0

\* i32::clamp
Clamp(x, lo, hi) == IF x < lo THEN lo ELSE IF x > hi THEN hi ELSE x

\* graph_list_state.selected().unwrap_or(0)
Current(sel) == IF sel = <<>> THEN 0 ELSE sel[1]

\* the selection is clamped to the number of rows, not to the last row
MoveSelectionToLen(layout, sel, delta) ==
    <<Clamp(Current(sel) + delta, 0, Len(layout.nodes))>>

\* move_selection: the selection after it
MoveSelection(layout, sel, delta) ==
    <<Clamp(Current(sel) + delta, 0, SaturatingSub(Len(layout.nodes), 1))>>

\* select_last: the selection after it
SelectLast(layout) == <<SaturatingSub(Len(layout.nodes), 1)>>

\* the search starts at the current row
JumpToNextBranchFromCurrent(layout, sel) ==
    LET hits == {i \in Current(sel)..(Len(layout.nodes) - 1) :
                    layout.nodes[i + 1].branch_names # <<>>}
    IN  IF hits = {} THEN sel ELSE <<SetMin(hits)>>

\* jump_to_next_branch: the selection after it
JumpToNextBranch(layout, sel) ==
    LET hits == {i \in (Current(sel) + 1)..(Len(layout.nodes) - 1) :
                    layout.nodes[i + 1].branch_names # <<>>}
    IN  IF hits = {} THEN sel ELSE <<SetMin(hits)>>

\* jump_to_prev_branch: the selection after it
JumpToPrevBranch(layout, sel) ==
    LET hits == {i \in 0..(Current(sel) - 1) :
                    /\ i < Len(layout.nodes)
                    /\ layout.nodes[i + 1].branch_names # <<>>}
    IN  IF hits = {} THEN sel ELSE <<SetMax(hits)>>

\* selected_commit_node
SelectedCommitNode(layout, sel) ==
    IF sel # <<>> /\ sel[1] < Len(layout.nodes)
    THEN <<layout.nodes[sel[1] + 1]>>
    ELSE <<>>

\* the last of the row's branch names is looked up
SelectedBranchLastName(layout, bs, sel) ==
    LET node == SelectedCommitNode(layout, sel)
    IN  IF node = <<>> \/ node[1].branch_names = <<>> THEN <<>>
        ELSE LET names == node[1].branch_names
                 hits == {i \in DOMAIN bs : bs[i].name = names[Len(names)]}
             IN  IF hits = {} THEN <<>> ELSE <<bs[SetMin(hits)]>>

\* selected_branch
SelectedBranch(layout, bs, sel) ==
    LET node == SelectedCommitNode(layout, sel)
    IN  IF node = <<>> \/ node[1].branch_names = <<>> THEN <<>>
        ELSE LET hits == {i \in DOMAIN bs :
                             bs[i].name = node[1].branch_names[1]}
             IN  IF hits = {} THEN <<>> ELSE <<bs[SetMin(hits)]>>

\* the selection is left where it was
AdjustedSelectionKept(layout, sel) == sel

\* refresh, lines 102-108: the selection adjusted to the new layout
AdjustedSelection(layout, sel) ==
    LET max_commit == SaturatingSub(Len(layout.nodes), 1)
    IN  IF sel # <<>> /\ sel[1] > max_commit THEN <<max_commit>> ELSE sel

\* the layout is built before the branches are fetched
RefreshedBuildsEarly(ok) ==
    \/ /\ ok
       /\ \E s \in RepoViews :
             /\ commits' = s.commits
             /\ branches' = s.branches
             /\ graph_layout' = BuildGraph(commits', branches')
             /\ head' = s.head
             /\ selected' = AdjustedSelection(graph_layout', selected)
    \/ /\ ~ok
       /\ UNCHANGED <<commits, branches, graph_layout, head, selected>>
    \/ /\ ~ok
       /\ \E n \in 0..MaxCommits :
             /\ commits' = LinearCommits(n)
             /\ graph_layout' = BuildGraph(commits', branches)
       /\ UNCHANGED <<branches, head, selected>>

\* refresh, with ok for its result: both fetches succeed, or get_commits
\* fails, or get_branches fails after get_commits has succeeded
Refreshed(ok) ==
    \/ /\ ok
       /\ \E s \in RepoViews :
             /\ commits' = s.commits
             /\ branches' = s.branches
             /\ graph_layout' = BuildGraph(commits', branches')
             /\ head' = s.head
             /\ selected' = AdjustedSelection(graph_layout', selected)
    \/ /\ ~ok
       /\ UNCHANGED <<commits, branches, graph_layout, head, selected>>
    \/ /\ ~ok
       /\ \E n \in 0..MaxCommits : commits' = LinearCommits(n)
       /\ UNCHANGED <<branches, graph_layout, head, selected>>

\* a handler of Normal mode that only moves the selection
Navigated(a, sel) ==
    /\ mode.kind = "Normal"
    /\ selected' = sel
    /\ handled' = [action |-> a, ok |-> TRUE, from |-> selected]
    /\ UNCHANGED <<commits, branches, head, graph_layout, mode, should_quit>>
    /\ UNCHANGED <<builderVars, colorVars>>

NormalMoveUp == Navigated("MoveUp", MoveSelection(graph_layout, selected, -1))

NormalMoveDown ==
    Navigated("MoveDown", MoveSelection(graph_layout, selected, 1))

NormalPageUp ==
    Navigated("PageUp", MoveSelection(graph_layout, selected, -10))

NormalPageDown ==
    Navigated("PageDown", MoveSelection(graph_layout, selected, 10))

\* select_first
NormalGoToTop == Navigated("GoToTop", <<0>>)

NormalGoToBottom == Navigated("GoToBottom", SelectLast(graph_layout))

NormalNextBranch ==
    Navigated("NextBranch", JumpToNextBranch(graph_layout, selected))

NormalPrevBranch ==
    Navigated("PrevBranch", JumpToPrevBranch(graph_layout, selected))

\* a handler that changes the mode at most
ModeChanged(from, a, to) ==
    /\ mode.kind = from
    /\ mode' = to
    /\ handled' = [action |-> a, ok |-> TRUE, from |-> <<>>]
    /\ UNCHANGED <<commits, branches, head, graph_layout, selected,
                   should_quit>>
    /\ UNCHANGED <<builderVars, colorVars>>

NormalQuit ==
    /\ mode.kind = "Normal"
    /\ should_quit' = TRUE
    /\ handled' = [action |-> "Quit", ok |-> TRUE, from |-> <<>>]
    /\ UNCHANGED <<commits, branches, head, graph_layout, selected, mode>>
    /\ UNCHANGED <<builderVars, colorVars>>

NormalToggleHelp == ModeChanged("Normal", "ToggleHelp", HelpMode)

NormalRefresh ==
    /\ mode.kind = "Normal"
    /\ \E ok \in BOOLEAN :
          /\ Refreshed(ok)
          /\ handled' = [action |-> "Refresh", ok |-> ok, from |-> <<>>]
    /\ UNCHANGED <<mode, should_quit>>
    /\ UNCHANGED <<builderVars, colorVars>>

\* do_checkout: what is checked out, a local branch, a commit or nothing
CheckoutTarget(layout, sel) ==
    LET node == SelectedCommitNode(layout, sel)
    IN  IF node = <<>> THEN "nothing"
        ELSE IF node[1].branch_names = <<>> THEN "commit"
        ELSE IF IsRemoteName(node[1].branch_names[1]) THEN "nothing"
        ELSE "branch"

\* do_checkout: nothing to check out, or the checkout fails, or it succeeds
\* and refresh follows
NormalCheckout ==
    /\ mode.kind = "Normal"
    /\ \/ /\ CheckoutTarget(graph_layout, selected) = "nothing"
          /\ handled' = [action |-> "Checkout", ok |-> TRUE, from |-> <<>>]
          /\ UNCHANGED <<commits, branches, head, graph_layout, selected>>
       \/ /\ CheckoutTarget(graph_layout, selected) # "nothing"
          /\ \/ /\ handled' = [action |-> "Checkout", ok |-> FALSE,
                               from |-> <<>>]
                /\ UNCHANGED <<commits, branches, head, graph_layout,
                               selected>>
             \/ \E ok \in BOOLEAN :
                   /\ Refreshed(ok)
                   /\ handled' = [action |-> "Checkout", ok |-> ok,
                                  from |-> <<>>]
    /\ UNCHANGED <<mode, should_quit>>
    /\ UNCHANGED <<builderVars, colorVars>>

NormalCreateBranch == ModeChanged("Normal", "CreateBranch", InputMode(<<>>))

\* the HEAD and remote flags of the branch not looked at
NormalDeleteBranchUnguarded ==
    LET b == SelectedBranch(graph_layout, branches, selected)
    IN  ModeChanged("Normal", "DeleteBranch",
            IF b # <<>> THEN ConfirmMode("DeleteBranch", b[1].name)
            ELSE mode)

NormalDeleteBranch ==
    LET b == SelectedBranch(graph_layout, branches, selected)
    IN  ModeChanged("Normal", "DeleteBranch",
            IF b # <<>> /\ ~b[1].is_head /\ ~b[1].is_remote
            THEN ConfirmMode("DeleteBranch", b[1].name)
            ELSE mode)

NormalMerge ==
    LET b == SelectedBranch(graph_layout, branches, selected)
    IN  ModeChanged("Normal", "Merge",
            IF b # <<>> /\ ~b[1].is_head
            THEN ConfirmMode("Merge", b[1].name)
            ELSE mode)

NormalRebase ==
    LET b == SelectedBranch(graph_layout, branches, selected)
    IN  ModeChanged("Normal", "Rebase",
            IF b # <<>> /\ ~b[1].is_head
            THEN ConfirmMode("Rebase", b[1].name)
            ELSE mode)

\* actions Normal mode has no arm for
NormalIgnored ==
    \E a \in {"Search", "Cancel"} : ModeChanged("Normal", a, mode)

\* Quit in Help mode quits
HelpLeaveQuits ==
    \E a \in {"ToggleHelp", "Quit", "Cancel"} :
        /\ mode.kind = "Help"
        /\ mode' = NormalMode
        /\ should_quit' = (should_quit \/ a = "Quit")
        /\ handled' = [action |-> a, ok |-> TRUE, from |-> <<>>]
        /\ UNCHANGED <<commits, branches, head, graph_layout, selected>>
        /\ UNCHANGED <<builderVars, colorVars>>

HelpLeave ==
    \E a \in {"ToggleHelp", "Quit", "Cancel"} :
        ModeChanged("Help", a, NormalMode)

\* actions Help mode has no arm for
HelpIgnored ==
    \E a \in {"MoveDown", "Refresh"} : ModeChanged("Help", a, mode)

\* Confirm in Input mode: create_branch and refresh when there is a name
\* and a selected row, and then Normal mode
InputConfirm ==
    /\ mode.kind = "Input"
    /\ \/ /\ \/ mode.input = <<>>
             \/ SelectedCommitNode(graph_layout, selected) = <<>>
          /\ mode' = NormalMode
          /\ handled' = [action |-> "Confirm", ok |-> TRUE, from |-> <<>>]
          /\ UNCHANGED <<commits, branches, head, graph_layout, selected>>
       \/ /\ mode.input # <<>>
          /\ SelectedCommitNode(graph_layout, selected) # <<>>
          /\ \/ /\ handled' = [action |-> "Confirm", ok |-> FALSE,
                               from |-> <<>>]
                /\ UNCHANGED <<commits, branches, head, graph_layout,
                               selected, mode>>
             \/ \E ok \in BOOLEAN :
                   /\ Refreshed(ok)
                   /\ mode' = IF ok THEN NormalMode ELSE mode
                   /\ handled' = [action |-> "Confirm", ok |-> ok,
                                  from |-> <<>>]
    /\ UNCHANGED should_quit
    /\ UNCHANGED <<builderVars, colorVars>>

InputCancel == ModeChanged("Input", "Cancel", NormalMode)

InputChar ==
    /\ Len(mode.input) < MaxInput
    /\ ModeChanged("Input", "InputChar", InputMode(Append(mode.input, "x")))

\* String::pop
InputBackspace ==
    ModeChanged("Input", "InputBackspace",
        InputMode(IF mode.input = <<>> THEN <<>>
                  ELSE SubSeq(mode.input, 1, Len(mode.input) - 1)))

\* actions Input mode has no arm for
InputIgnored ==
    \E a \in {"MoveDown", "Refresh", "Quit"} : ModeChanged("Input", a, mode)

\* Confirm in Confirm mode: the operation fails, or it succeeds and refresh
\* follows, and then Normal mode
\* Confirm mode left also when the operation or the refresh failed
ConfirmConfirmAlwaysLeaves ==
    /\ mode.kind = "Confirm"
    /\ \/ /\ handled' = [action |-> "Confirm", ok |-> FALSE, from |-> <<>>]
          /\ UNCHANGED <<commits, branches, head, graph_layout, selected>>
       \/ \E ok \in BOOLEAN :
             /\ Refreshed(ok)
             /\ handled' = [action |-> "Confirm", ok |-> ok, from |-> <<>>]
    /\ mode' = NormalMode
    /\ UNCHANGED should_quit
    /\ UNCHANGED <<builderVars, colorVars>>

ConfirmConfirm ==
    /\ mode.kind = "Confirm"
    /\ \/ /\ handled' = [action |-> "Confirm", ok |-> FALSE, from |-> <<>>]
          /\ UNCHANGED <<commits, branches, head, graph_layout, selected,
                         mode>>
       \/ \E ok \in BOOLEAN :
             /\ Refreshed(ok)
             /\ mode' = IF ok THEN NormalMode ELSE mode
             /\ handled' = [action |-> "Confirm", ok |-> ok, from |-> <<>>]
    /\ UNCHANGED should_quit
    /\ UNCHANGED <<builderVars, colorVars>>

ConfirmCancel == ModeChanged("Confirm", "Cancel", NormalMode)

\* actions Confirm mode has no arm for
ConfirmIgnored ==
    \E a \in {"MoveDown", "Refresh", "Quit"} :
        ModeChanged("Confirm", a, mode)

\* App::new on any repository
InitApp ==
    /\ \E s \in RepoViews :
          /\ commits = s.commits
          /\ branches = s.branches
          /\ head = s.head
          /\ graph_layout = BuildGraph(s.commits, s.branches)
    /\ mode = NormalMode
    /\ selected = <<0>>
    /\ should_quit = FALSE
    /\ handled = [action |-> "", ok |-> TRUE, from |-> <<>>]
    /\ window = 0
    /\ prev_layout = <<>>
    /\ pc = "get_commits"
    /\ row = 0
    /\ parent_idx = 0
    /\ active_lanes = <<>>
    /\ lane = 0
    /\ active_lanes_snapshot = <<>>
    /\ connections = <<>>
    /\ nodes = <<>>
    /\ max_lane = 0
    /\ max_pending = 0
    /\ lane_colors = <<>>
    /\ lane_last_color = <<>>
    /\ next_color_index = 0
    /\ reserved_colors = {}
    /\ recent_assignments = <<>>
    /\ current_row = 0
    /\ current_fork_colors = {}
    /\ color_usage_count = [c \in 0..(PaletteSize - 1) |-> 0]
    /\ main_lane = <<>>
    /\ returned = Unit

NextApp ==
    \/ NormalQuit
    \/ NormalMoveUp
    \/ NormalMoveDown
    \/ NormalPageUp
    \/ NormalPageDown
    \/ NormalGoToTop
    \/ NormalGoToBottom
    \/ NormalNextBranch
    \/ NormalPrevBranch
    \/ NormalToggleHelp
    \/ NormalRefresh
    \/ NormalCheckout
    \/ NormalCreateBranch
    \/ NormalDeleteBranch
    \/ NormalMerge
    \/ NormalRebase
    \/ NormalIgnored
    \/ HelpLeave
    \/ HelpIgnored
    \/ InputConfirm
    \/ InputCancel
    \/ InputChar
    \/ InputBackspace
    \/ InputIgnored
    \/ ConfirmConfirm
    \/ ConfirmCancel
    \/ ConfirmIgnored

SpecApp == InitApp /\ [][NextApp]_vars

----------------------------------------------------------------------------
(* Vocabulary of the properties *)

\* the layout has been returned
Returned == pc = "done"

\* the step that selects the lane of a row
SelectsLane == pc = "select" /\ pc' = "route"

\* the step that routes one parent
RoutesParent == pc = "route" /\ parent_idx' = parent_idx + 1

UniqueOids(cs) ==
    \A i, j \in DOMAIN cs : cs[i].oid = cs[j].oid => i = j

ChildrenFirst(cs) ==
    \A i, j \in DOMAIN cs : \A k \in DOMAIN cs[i].parent_oids :
        cs[i].parent_oids[k] = cs[j].oid => i < j

HeldBy(lanes, v) == {i \in DOMAIN lanes : lanes[i] = v}

ConnClassified(c, l) ==
    /\ c.source_lane = l
    /\ (c.connection_type = "Direct" <=> c.target_lane = c.source_lane)
    /\ (c.connection_type = "BranchOut" <=> c.target_lane > c.source_lane)
    /\ (c.connection_type = "MergeIn" <=> c.target_lane < c.source_lane)

----------------------------------------------------------------------------
(* C1..C10: the lane allocator *)

\* C1: every connection produced by build_graph has source_lane equal to the
\* lane of the node that owns it, and its type is Direct iff target_lane =
\* source_lane, BranchOut iff target_lane > source_lane, MergeIn iff
\* target_lane < source_lane.
C1_ConnectionClassified ==
    /\ \A i \in DOMAIN nodes : \A k \in DOMAIN nodes[i].connections :
          ConnClassified(nodes[i].connections[k], nodes[i].lane)
    /\ pc = "route" =>
          \A k \in DOMAIN connections : ConnClassified(connections[k], lane)

C1_Witness ==
    /\ Returned
    /\ \E i, j, m \in DOMAIN nodes :
          /\ \E k \in DOMAIN nodes[i].connections :
                nodes[i].connections[k].connection_type = "Direct"
          /\ \E k \in DOMAIN nodes[j].connections :
                nodes[j].connections[k].connection_type = "BranchOut"
          /\ \E k \in DOMAIN nodes[m].connections :
                nodes[m].connections[k].connection_type = "MergeIn"

\* C2: with unique oids and children before parents, a connection routed to
\* parent P with target_lane t is met by P's node in lane t: all children of
\* one parent route to the lane in which the parent is drawn.
C2_ParentDrawnInTargetLane ==
    (UniqueOids(commits) /\ ChildrenFirst(commits)) =>
        \A i, j \in DOMAIN nodes : \A k \in DOMAIN nodes[i].connections :
            nodes[j].commit.oid = nodes[i].connections[k].target_oid =>
                nodes[j].lane = nodes[i].connections[k].target_lane

C2_Witness ==
    /\ Returned
    /\ \E i, j, p \in DOMAIN nodes :
          /\ i # j
          /\ nodes[i].lane # nodes[j].lane
          /\ \E k \in DOMAIN nodes[i].connections :
                /\ nodes[i].connections[k].target_oid = nodes[p].commit.oid
                /\ nodes[i].connections[k].target_lane = nodes[p].lane
          /\ \E k \in DOMAIN nodes[j].connections :
                /\ nodes[j].connections[k].target_oid = nodes[p].commit.oid
                /\ nodes[j].connections[k].target_lane = nodes[p].lane

\* C3: a row whose commit is pending in some lane takes that lane; otherwise
\* it takes the lowest lane that holds no pending parent; a lane is appended
\* (its index the lane count) only when every lane holds a pending parent.
C3_LaneSelection ==
    [][SelectsLane =>
        LET oid == commits[row + 1].oid
            held == HeldBy(active_lanes, oid)
            free == HeldBy(active_lanes, None)
        IN  /\ held # {} =>
                 /\ lane' + 1 \in held
                 /\ Len(active_lanes') = Len(active_lanes)
            /\ (held = {} /\ free # {}) =>
                 /\ lane' + 1 = SetMin(free)
                 /\ Len(active_lanes') = Len(active_lanes)
            /\ (held = {} /\ free = {}) =>
                 /\ lane' = Len(active_lanes)
                 /\ Len(active_lanes') = Len(active_lanes) + 1
    ]_vars

\* a row that was pending nowhere (no child in the window) has just been
\* placed right of lane 0, every lane left of it holding a pending parent
C3_Witness ==
    /\ pc = "route"
    /\ parent_idx = 0
    /\ connections = <<>>
    /\ lane >= 1
    /\ ~HasChild(commits, commits[row + 1].oid)
    /\ \A i \in 1..lane : active_lanes[i] # None

\* C4: the parents are routed in order after the row's lane is freed: a
\* parent pending in a lane goes to that lane and allocates nothing; else
\* the first parent takes the row's own lane (Direct); else the parent takes
\* the lowest free lane, a lane being appended only if none is free.
C4_ParentRouting ==
    [][/\ SelectsLane => active_lanes'[lane' + 1] = None
       /\ (RoutesParent /\ InWindow(commits,
                              commits[row + 1].parent_oids[parent_idx + 1])) =>
            LET p == commits[row + 1].parent_oids[parent_idx + 1]
                held == HeldBy(active_lanes, p)
                free == HeldBy(active_lanes, None)
                c == connections'[Len(connections')]
            IN  /\ Len(connections') = Len(connections) + 1
                /\ c.target_oid = p
                /\ held # {} =>
                     /\ c.target_lane + 1 \in held
                     /\ active_lanes' = active_lanes
                /\ (held = {} /\ parent_idx = 0) =>
                     /\ c.target_lane = lane
                     /\ c.connection_type = "Direct"
                     /\ active_lanes' = [active_lanes EXCEPT ![lane + 1] = p]
                /\ (held = {} /\ parent_idx > 0 /\ free # {}) =>
                     /\ c.target_lane + 1 = SetMin(free)
                     /\ active_lanes' =
                            [active_lanes EXCEPT ![SetMin(free)] = p]
                /\ (held = {} /\ parent_idx > 0 /\ free = {}) =>
                     /\ c.target_lane = Len(active_lanes)
                     /\ active_lanes' = Append(active_lanes, p)
    ]_vars

\* the first row of a merge: first parent straight on, second in a new lane
C4_Witness ==
    /\ pc = "route"
    /\ row = 0
    /\ Len(connections) = 2
    /\ connections[1].connection_type = "Direct"
    /\ connections[2].connection_type = "BranchOut"
    /\ connections[2].target_lane = Len(active_lanes) - 1

\* C5: a linear history of N >= 1 commits (each the only parent of the one
\* before, the last a root) puts every node in lane 0, emits exactly N - 1
\* connections, all Direct, and returns max_lane = 0.
IsLinear(cs) ==
    /\ Len(cs) >= 1
    /\ \A i \in DOMAIN cs :
          cs[i].parent_oids = IF i < Len(cs) THEN <<cs[i + 1].oid>> ELSE <<>>

RECURSIVE ConnectionCount(_)
ConnectionCount(ns) ==
    IF ns = <<>> THEN 0
    ELSE Len(Head(ns).connections) + ConnectionCount(Tail(ns))

C5_LinearHistory ==
    (Returned /\ IsLinear(commits)) =>
        /\ Len(nodes) = Len(commits)
        /\ \A i \in DOMAIN nodes : nodes[i].lane = 0
        /\ ConnectionCount(nodes) = Len(commits) - 1
        /\ \A i \in DOMAIN nodes : \A k \in DOMAIN nodes[i].connections :
              nodes[i].connections[k].connection_type = "Direct"
        /\ max_lane = 0

C5_Witness == Returned /\ IsLinear(commits) /\ Len(commits) >= 3

\* C6: with unique oids and children before parents, the returned max_lane
\* is at most the largest number of lanes that held a pending parent at a
\* row boundary of the build.
C6_MaxLaneBoundedByPending ==
    (Returned /\ UniqueOids(commits) /\ ChildrenFirst(commits)) =>
        max_lane <= max_pending

C6_Witness == Returned /\ max_lane >= 1 /\ max_lane = max_pending

\* C7: a lane holding pending parent P keeps P until the row of P selects
\* that lane; no other commit is placed in it and no other parent is
\* written into it meanwhile.
C7_LaneHeldUntilParentRow ==
    [][/\ \A i \in DOMAIN active_lanes :
            active_lanes[i] # None =>
                \/ /\ i \in DOMAIN active_lanes'
                   /\ active_lanes'[i] = active_lanes[i]
                \/ /\ SelectsLane
                   /\ commits[row + 1].oid = active_lanes[i]
                   /\ lane' = i - 1
       /\ SelectsLane =>
            \A i \in DOMAIN active_lanes :
                (lane' = i - 1 /\ active_lanes[i] # None) =>
                    active_lanes[i] = commits[row + 1].oid
    ]_vars

\* a lane keeps its pending parent while the row of another commit, which
\* is not a child of that parent, is processed
C7_Witness ==
    /\ pc = "route"
    /\ row >= 1
    /\ parent_idx = Len(commits[row + 1].parent_oids)
    /\ \E i \in DOMAIN active_lanes :
          /\ active_lanes[i] # None
          /\ i # lane + 1
          /\ \A k \in DOMAIN commits[row + 1].parent_oids :
                commits[row + 1].parent_oids[k] # active_lanes[i]

\* C8: a node's connections are, in parent order, one per entry of
\* parent_oids that is among the input commits; a parent outside the input
\* gets no connection and occupies no lane.
C8_ConnectionsAreWindowParents ==
    /\ \A i \in DOMAIN nodes :
          LET InW(o) == InWindow(commits, o)
              ps == SelectSeq(nodes[i].commit.parent_oids, InW)
          IN  /\ Len(nodes[i].connections) = Len(ps)
              /\ \A k \in DOMAIN ps :
                    nodes[i].connections[k].target_oid = ps[k]
    /\ \A i \in DOMAIN active_lanes :
          active_lanes[i] # None => InWindow(commits, active_lanes[i])

\* a node with a parent outside the window before one inside it, and a node
\* none of whose parents is in the window
C8_Witness ==
    /\ Returned
    /\ \E i \in DOMAIN nodes :
          /\ Len(nodes[i].commit.parent_oids) = 2
          /\ ~InWindow(commits, nodes[i].commit.parent_oids[1])
          /\ Len(nodes[i].connections) = 1
    /\ \E i \in DOMAIN nodes :
          /\ Len(nodes[i].commit.parent_oids) >= 1
          /\ nodes[i].connections = <<>>

\* C9: the returned max_lane is at least the lane of every node and the
\* source_lane and target_lane of every connection.
C9_MaxLaneCoversLayout ==
    Returned =>
        \A i \in DOMAIN nodes :
            /\ nodes[i].lane <= max_lane
            /\ \A k \in DOMAIN nodes[i].connections :
                  /\ nodes[i].connections[k].source_lane <= max_lane
                  /\ nodes[i].connections[k].target_lane <= max_lane

\* the widest lane is that of a node no connection leads to
C9_Witness ==
    /\ Returned
    /\ max_lane >= 1
    /\ \E i \in DOMAIN nodes : nodes[i].lane = max_lane
    /\ \A i \in DOMAIN nodes : \A k \in DOMAIN nodes[i].connections :
          nodes[i].connections[k].target_lane < max_lane

\* C10 as stated: every node's active_lanes vector has length at least the
\* final max_lane + 1.
C10_SnapshotCoversMaxLane ==
    Returned =>
        \A i \in DOMAIN nodes : Len(nodes[i].active_lanes) >= max_lane + 1

\* C10 amended: every node's active_lanes vector has length at least the
\* node's own lane + 1 and at most the final max_lane + 1 (it is as long as
\* the lane vector was when the row was reached).
C10_SnapshotCoversOwnLane ==
    Returned =>
        \A i \in DOMAIN nodes :
            /\ Len(nodes[i].active_lanes) >= nodes[i].lane + 1
            /\ Len(nodes[i].active_lanes) <= max_lane + 1

\* an early row whose snapshot is shorter than the final width
C10_Witness ==
    /\ Returned
    /\ \E i \in DOMAIN nodes : Len(nodes[i].active_lanes) < max_lane + 1

----------------------------------------------------------------------------
(* C11..C17: rows, snapshots, labels *)

\* the step that ends a row
EndsRow == pc = "route" /\ row' = row + 1

\* C11: the snapshot of a row is taken after lane selection and before the
\* row's lane is freed or its parents are routed: for every lane other than
\* the node's, active_lanes[i] is true iff lane i held a pending parent at
\* that moment; active_lanes[node.lane] is always true.
C11_SnapshotAtSelection ==
    [][/\ SelectsLane =>
            /\ Len(active_lanes_snapshot') = Len(active_lanes')
            /\ active_lanes_snapshot'[lane' + 1] = TRUE
            /\ \A i \in DOMAIN active_lanes_snapshot' :
                  i # lane' + 1 =>
                      (active_lanes_snapshot'[i] <=>
                          (i \in DOMAIN active_lanes /\ active_lanes[i] # None))
       /\ RoutesParent => active_lanes_snapshot' = active_lanes_snapshot
       /\ EndsRow =>
            /\ nodes'[Len(nodes')].active_lanes = active_lanes_snapshot
            /\ nodes'[Len(nodes')].active_lanes[nodes'[Len(nodes')].lane + 1]
    ]_vars

\* a node shown active in its own lane although nothing was pending there,
\* beside another lane that was pending, whose routing changed the lanes
C11_Witness ==
    /\ Returned
    /\ \E i \in DOMAIN nodes :
          /\ ~HasChild(commits, nodes[i].commit.oid)
          /\ nodes[i].lane >= 1
          /\ nodes[i].active_lanes[1]
          /\ nodes[i].connections # <<>>

\* C12 as stated: a connection owned by the node at row r targets a parent
\* whose node is at row r + 1.
C12_ConnectionsAdjacentRows ==
    \A i \in DOMAIN nodes : \A k \in DOMAIN nodes[i].connections :
        \E j \in DOMAIN commits :
            /\ commits[j].oid = nodes[i].connections[k].target_oid
            /\ j - 1 = nodes[i].row + 1

\* C12 amended: a connection owned by the node at row r targets a parent
\* commit of the window whose row is later than r (r + 1 or any later row).
C12_ConnectionsToLaterRows ==
    \A i \in DOMAIN nodes : \A k \in DOMAIN nodes[i].connections :
        \E j \in DOMAIN commits :
            /\ commits[j].oid = nodes[i].connections[k].target_oid
            /\ j - 1 > nodes[i].row

\* a connection that skips a row
C12_Witness ==
    /\ Returned
    /\ \E i \in DOMAIN nodes : \E k \in DOMAIN nodes[i].connections :
          OidToRow(commits)[nodes[i].connections[k].target_oid]
              > nodes[i].row + 1

\* C13: one node per input commit, in input order: node i carries commit i
\* and row i, the layout has as many nodes as commits, and row i is
\* processed on the state left by rows 0..i-1 (every earlier row emitted,
\* the lanes untouched between rows).
C13_OneNodePerCommitInOrder ==
    /\ [](/\ \A i \in DOMAIN nodes :
                /\ i \in DOMAIN commits
                /\ nodes[i].commit = commits[i]
                /\ nodes[i].row = i - 1
          /\ pc \in {"select", "route"} => Len(nodes) = row
          /\ Returned => Len(nodes) = Len(commits))
    /\ [][EndsRow => active_lanes' = active_lanes]_vars

C13_Witness ==
    /\ Returned
    /\ Len(nodes) >= 3
    /\ \E i \in DOMAIN nodes : nodes[i].lane # 0

Mentions(node, name) ==
    \E k \in DOMAIN node.branch_names : node.branch_names[k] = name

\* C14: a node's branch_names are the names of the input branches whose tip
\* is the node's commit, in input order; a branch whose tip is outside the
\* input is on no row, one whose tip is inside is on exactly one row.
C14_BranchNamesPerRow ==
    Returned =>
        /\ \A i \in DOMAIN nodes :
              LET AtNode(b) == b.tip_oid = nodes[i].commit.oid
                  bs == SelectSeq(branches, AtNode)
              IN  /\ Len(nodes[i].branch_names) = Len(bs)
                  /\ \A k \in DOMAIN bs : nodes[i].branch_names[k] = bs[k].name
        /\ \A b \in DOMAIN branches :
              LET rows == {i \in DOMAIN nodes : Mentions(nodes[i], branches[b].name)}
              IN  IF InWindow(commits, branches[b].tip_oid)
                  THEN Cardinality(rows) = 1
                  ELSE rows = {}

\* a row with two names, the HEAD branch not the first by name, and a
\* branch whose tip is outside the window
C14_Witness ==
    /\ Returned
    /\ \E i \in DOMAIN nodes :
          /\ Len(nodes[i].branch_names) = 2
          /\ nodes[i].branch_names[1] = "main"
          /\ nodes[i].branch_names[2] = "dev"
    /\ \E b \in DOMAIN branches : ~InWindow(commits, branches[b].tip_oid)

\* C15 as stated: is_head is true exactly for the row whose commit HEAD
\* resolves to, be HEAD a branch or a detached commit, and at most one row
\* has it.
C15_HeadRowFlagged ==
    Returned =>
        /\ \A i \in DOMAIN nodes :
              nodes[i].is_head <=>
                  (head.kind # "unborn" /\ head.oid = nodes[i].commit.oid)
        /\ \A i, j \in DOMAIN nodes :
              (nodes[i].is_head /\ nodes[j].is_head) => i = j

C17_EmptyInput ==
    (Returned /\ commits = <<>>) => (nodes = <<>> /\ max_lane = 0)

C17_Witness == Returned /\ commits = <<>> /\ Len(branches) >= 2

----------------------------------------------------------------------------
(* ColorAssigner properties *)

AssignOps == {"assign_color", "assign_fork_sibling_color"}

Unreserved == Palette \ reserved_colors

\* C18 as stated: once assign_main_color(L) has been called, lane L keeps
\* the main colour, for get_lane_color_index(L) and for continue_lane(L),
\* whatever calls of assign_color, assign_fork_sibling_color, continue_lane,
\* release_lane, advance_row and begin_fork follow, on L or on other lanes.
C18_MainLaneColorFixed ==
    main_lane # <<>> =>
        /\ GetLaneColorIndex(lane_colors, main_lane[1]) = <<MAIN_BRANCH_COLOR>>
        /\ ContinueLaneColor(main_lane[1]) = <<MAIN_BRANCH_COLOR>>

\* C19, within the bounds of the runs: a fork sibling is not given a colour
\* that an earlier fork sibling of the same row was given, while there are
\* more unreserved colours than fork colours.
C19_ForkSiblingsDiffer ==
    [][(/\ returned'.op = "assign_fork_sibling_color"
        /\ Cardinality(current_fork_colors) < Cardinality(Unreserved))
       => returned'.color[1] \notin current_fork_colors]_vars

\* two fork siblings of one row, on different lanes
C19_Witness ==
    /\ returned.op = "assign_fork_sibling_color"
    /\ Cardinality(current_fork_colors) = 2
    /\ Len(recent_assignments) = 2
    /\ recent_assignments[1].lane # recent_assignments[2].lane
    /\ recent_assignments[1].row = recent_assignments[2].row

\* C20: while some colour of the palette is unreserved, assign_color and
\* assign_fork_sibling_color return no reserved colour; once there is a main
\* lane they do not return MAIN_BRANCH_COLOR.
C20_ReservedNotAssigned ==
    (returned.op \in AssignOps /\ Unreserved # {}) =>
        /\ returned.color[1] \notin reserved_colors
        /\ main_lane # <<>> => returned.color[1] # MAIN_BRANCH_COLOR

\* a colour assigned to a lane other than the main lane while the colour
\* the scan meets first is reserved
C20_Witness ==
    /\ returned.op \in AssignOps
    /\ main_lane # <<>>
    /\ returned.lane # main_lane
    /\ (returned.color[1] + PaletteSize - 1) % PaletteSize \in reserved_colors
    /\ Cardinality(reserved_colors) >= 2

\* the step is a call of assign_color or assign_fork_sibling_color on lane l
AssignsTo(l) ==
    /\ returned'.op \in AssignOps
    /\ returned'.lane = <<l>>
    /\ color_usage_count' # color_usage_count

\* the last assignment the history holds for lane l gave it colour c
LastAssigned(l, c) ==
    \E i \in DOMAIN recent_assignments :
        /\ recent_assignments[i].lane = l
        /\ recent_assignments[i].color = c
        /\ \A j \in DOMAIN recent_assignments :
               j > i => recent_assignments[j].lane # l

\* lane l, not the main lane, held colour c and has been released: either
\* the last call released it, or c is the colour it was last assigned
ReleasedHolding(l, c) ==
    /\ main_lane # <<l>>
    /\ GetLaneColorIndex(lane_colors, l) = <<>>
    /\ \/ returned = [op |-> "release_lane", lane |-> <<l>>,
                      color |-> <<>>, held |-> <<c>>]
       \/ LastAssigned(l, c) /\ lane_last_color[l + 1] = c

\* color_penalties[d] of a call on lane l without the lane's last colour
PenaltyOfOthers(l, is_fork_sibling, d) ==
    ColorPenalty(lane_colors, lane_last_color, l, is_fork_sibling, d)
    - LastColorPenalty(lane_last_color, l, d)

\* C21 as stated: after release_lane(L) of a lane that held colour c, the
\* next assign_color(L) or assign_fork_sibling_color(L) returns a colour
\* other than c, whatever was called on other lanes in between.
C21_ReleasedColorNotReused ==
    [][\A l \in ColorLanes, c \in Palette :
          (ReleasedHolding(l, c) /\ AssignsTo(l))
             => returned'.color[1] # c]_vars

\* C21, amended: after release_lane(L) of a lane that held colour c, the
\* next assign_color(L) or assign_fork_sibling_color(L) returns a colour
\* other than c whenever some other unreserved colour has, at that call,
\* penalties that sum to less than the 10 of the lane's last colour.
C21_ReleasedColorAvoided ==
    [][\A l \in ColorLanes :
          AssignsTo(l) =>
              \A c \in Palette :
                  (/\ returned'.color[1] = c
                   /\ ReleasedHolding(l, c))
                      => ~\E d \in Unreserved \ {c} :
                              PenaltyOfOthers(l, returned'.op # "assign_color",
                                              d) < 10 * PenaltyScale]_vars

\* a released lane assigned again, with a colour other than the one it
\* held, while that colour is unreserved and its history entry is no
\* older than a row
C21_Witness ==
    /\ returned.op \in AssignOps
    /\ returned.held = <<>>
    /\ returned.lane # main_lane
    /\ Len(recent_assignments) = 2
    /\ recent_assignments[1].lane = returned.lane[1]
    /\ recent_assignments[1].color # returned.color[1]
    /\ recent_assignments[1].color \in Unreserved
    /\ Cardinality(Unreserved) = 2

RECURSIVE SumSeq(_)
SumSeq(q) == IF q = <<>> THEN 0 ELSE q[1] + SumSeq(Tail(q))

\* the penalty C26 states for colour c when lane l is assigned, times
\* PenaltyScale; the lane vectors are those of the call, with a slot for l
StatedPenalty(l, is_fork_sibling, c) ==
    LET cols == EnsureCapacity(lane_colors, l, <<>>)
        lasts == EnsureCapacity(lane_last_color, l, 0)
        max_count == SetMax({color_usage_count[k] : k \in Palette})
    IN  (IF lasts[l + 1] = c THEN 10 * PenaltyScale ELSE 0)
        + SumSeq([i \in 1..Len(cols) |->
                    IF cols[i] = <<c>>
                    THEN (8 * PenaltyScale) \div (Abs(l - (i - 1)) + 1)
                    ELSE 0])
        + SumSeq([i \in 1..Len(recent_assignments) |->
                    LET e == recent_assignments[i]
                        r == IF current_row > e.row THEN current_row - e.row
                             ELSE 0
                    IN  IF e.color = c
                        THEN (((4 * PenaltyScale) \div (r + 1)) * 2)
                                 \div (Abs(l - e.lane) + 1)
                        ELSE 0])
        + (IF is_fork_sibling /\ c \in current_fork_colors
           THEN 100 * PenaltyScale ELSE 0)
        + (IF max_count > 0
           THEN (2 * PenaltyScale * color_usage_count[c]) \div max_count
           ELSE 0)

\* how many colours the scan from next_color_index passes before colour c
ScanOrder(c) == (c + PaletteSize - next_color_index) % PaletteSize

C27_FirstAssignReturnsZero ==
    (/\ returned.op = "assign_color"
     /\ SumUsage(color_usage_count, PaletteSize) = 1
     /\ reserved_colors = {})
        => returned.color[1] = 0

\* C28: after assign_color or assign_fork_sibling_color returned colour c
\* for lane L at row r, the lane's colour and last colour are c,
\* next_color_index is (c + 1) mod 11, the newest history entry is
\* (r, L, c), the usage count of c is one higher and no other count has
\* changed, and c has joined the fork colours exactly when the call was a
\* fork-sibling assignment.
C28_StateAfterAssignment ==
    [][\A l \in ColorLanes :
          AssignsTo(l) =>
             LET c == returned'.color[1]
             IN  /\ GetLaneColorIndex(lane_colors', l) = <<c>>
                 /\ lane_last_color'[l + 1] = c
                 /\ next_color_index' = (c + 1) % 11
                 /\ recent_assignments' # <<>>
                 /\ recent_assignments'[Len(recent_assignments')]
                       = [row |-> current_row, lane |-> l, color |-> c]
                 /\ \A k \in Palette :
                       color_usage_count'[k]
                          = color_usage_count[k] + (IF k = c THEN 1 ELSE 0)
                 /\ current_fork_colors' =
                       IF returned'.op = "assign_fork_sibling_color"
                       THEN current_fork_colors \cup {c}
                       ELSE current_fork_colors]_vars

\* a plain assignment, in a later row, on the lane that a fork-sibling
\* assignment of the row gave another colour: the fork colours stay
C28_Witness ==
    /\ returned.op = "assign_color"
    /\ returned.held # <<>>
    /\ returned.held # returned.color
    /\ current_row >= 1
    /\ current_fork_colors # {}
    /\ Len(recent_assignments) = 2
    /\ recent_assignments[2].row = current_row

\* C30: release_lane(L) on a lane other than the main lane clears that
\* lane's colour and nothing else: the lane's last colour, the other
\* lanes' colours, the history, the usage counts, next_color_index, the
\* reserved colours and the fork colours stay; on the main lane, or on a
\* lane beyond those the assigner has seen, it changes nothing.
C30_ReleaseClearsOnlyLaneColor ==
    [][\A l \in ColorLanes :
          (returned'.op = "release_lane" /\ returned'.lane = <<l>>) =>
             /\ lane_colors' =
                   IF main_lane = <<l>> \/ l >= Len(lane_colors)
                   THEN lane_colors
                   ELSE [i \in 1..Len(lane_colors) |->
                           IF i = l + 1 THEN <<>> ELSE lane_colors[i]]
             /\ lane_last_color' = lane_last_color
             /\ recent_assignments' = recent_assignments
             /\ color_usage_count' = color_usage_count
             /\ next_color_index' = next_color_index
             /\ reserved_colors' = reserved_colors
             /\ current_fork_colors' = current_fork_colors
             /\ current_row' = current_row
             /\ main_lane' = main_lane]_vars

\* a lane that held a colour released beside the main lane, whose colour
\* is still there
C30_Witness ==
    /\ returned.op = "release_lane"
    /\ returned.held # <<>>
    /\ main_lane # <<>>
    /\ returned.lane # main_lane
    /\ GetLaneColorIndex(lane_colors, returned.lane[1]) = <<>>
    /\ GetLaneColorIndex(lane_colors, main_lane[1]) = <<MAIN_BRANCH_COLOR>>

\* the step pushes an entry on the history: a call of assign_color or
\* assign_fork_sibling_color, or a continue_lane that assigns
Assigns ==
    /\ returned'.op \in AssignOps \cup {"continue_lane"}
    /\ color_usage_count' # color_usage_count

\* C29: the history never holds more than 6 entries; an assignment puts
\* its entry at the back and, when that makes a seventh, the oldest entry
\* goes: the history is the latest assignments, oldest first.  No other
\* call changes the history.
C29_HistoryIsLatestSix ==
    [][/\ Len(recent_assignments') <= 6
       /\ ~Assigns => recent_assignments' = recent_assignments
       /\ Assigns =>
             LET old == recent_assignments
                 new == recent_assignments'
                 gone == Len(old) + 1 - Len(new)
             IN  /\ Len(new) = IF Len(old) < 6 THEN Len(old) + 1 ELSE 6
                 /\ new[Len(new)] = [row |-> current_row,
                                      lane |-> returned'.lane[1],
                                      color |-> returned'.color[1]]
                 /\ \A i \in 1..(Len(new) - 1) : new[i] = old[i + gone]
      ]_vars

\* the seventh assignment of a run has pushed the first out of the history
C29_Witness ==
    /\ returned.op \in AssignOps
    /\ SumUsage(color_usage_count, PaletteSize) = 7
    /\ Len(recent_assignments) = 6
    /\ recent_assignments[1].row >= 1
    /\ recent_assignments[6].row = current_row

\* C31 as stated: once assign_main_color(L) has been called, is_main_lane(L)
\* stays true and is_main_lane is false for every other lane, whatever is
\* called afterwards, further assign_main_color calls included
C31_MainLanePermanent ==
    [][\A l \in ColorLanes :
          main_lane = <<l>> => main_lane' = <<l>>]_vars

\* a call that returns nothing and is not reserve_color: advance_row or
\* begin_fork
RowOrForkStep ==
    /\ returned'.op = "unit"
    /\ reserved_colors' = reserved_colors

\* C32: advance_row adds one to the current row and empties the fork-sibling
\* set, begin_fork empties it, and neither changes lane colours, history,
\* usage counts or next_color_index; the set gains a colour only by a
\* fork-sibling assignment, so it never holds a colour of an earlier row and
\* such a colour carries no fork-sibling penalty in a later row
C32_ForkSetIsPerRow ==
    [][/\ RowOrForkStep =>
             /\ current_fork_colors' = {}
             /\ current_row' \in {current_row, current_row + 1}
             /\ UNCHANGED <<lane_colors, recent_assignments,
                            color_usage_count, next_color_index>>
       /\ current_row' # current_row =>
             /\ current_row' = current_row + 1
             /\ current_fork_colors' = {}
       /\ current_fork_colors' \subseteq
             current_fork_colors \cup
                (IF returned'.op = "assign_fork_sibling_color"
                 THEN {returned'.color[1]} ELSE {})]_vars

\* a fork-sibling assignment in row 1 after an assignment in row 0: the set
\* holds the colour of row 1 only
C32_Witness ==
    /\ returned.op = "assign_fork_sibling_color"
    /\ current_row = 1
    /\ Len(recent_assignments) = 2
    /\ recent_assignments[1].row = 0
    /\ recent_assignments[2].row = 1
    /\ current_fork_colors = {recent_assignments[2].color}
    /\ recent_assignments[1].color \notin current_fork_colors

\* the lanes a returned layout refers to: node lanes and target lanes
LanesReferenced ==
    {nodes[i].lane : i \in DOMAIN nodes} \cup
    UNION {{nodes[i].connections[k].target_lane :
               k \in DOMAIN nodes[i].connections} : i \in DOMAIN nodes}

\* C33: for a non-empty input the returned max_lane is the largest index
\* among the node lanes and the connection target lanes, no more
C33_MaxLaneTight ==
    (Returned /\ commits # <<>>) =>
        /\ max_lane \in LanesReferenced
        /\ \A l \in LanesReferenced : l <= max_lane

\* a layout two lanes wide whose first row is on lane 0 and branches out to
\* the widest lane
C33_Witness ==
    /\ Returned
    /\ max_lane = 1
    /\ nodes[1].lane = 0
    /\ \E k \in DOMAIN nodes[1].connections :
          nodes[1].connections[k].target_lane = max_lane
    /\ \E i \in DOMAIN nodes : nodes[i].lane = max_lane

\* C34: every lane opened for a pending parent is freed by that parent's
\* row: the row of a commit leaves the commit pending in no lane, and after
\* the last row no lane holds a pending parent
C34_PendingLanesFreed ==
    /\ [](Returned => \A i \in DOMAIN active_lanes : active_lanes[i] = None)
    /\ [][SelectsLane =>
             \A i \in DOMAIN active_lanes' :
                 active_lanes'[i] # commits[row + 1].oid]_vars

\* a returned layout during which two parents were pending at once, one of
\* them in a lane right of lane 0
C34_Witness ==
    /\ Returned
    /\ max_pending >= 2
    /\ Len(active_lanes) >= 2
    /\ \A i \in DOMAIN active_lanes : active_lanes[i] = None

\* C35: at every point of a build_graph run no commit id is pending in two
\* lanes at once, also when several rows share a parent and when a commit
\* lists the same parent twice
C35_PendingParentInOneLane ==
    \A i, j \in DOMAIN active_lanes :
        (active_lanes[i] # None /\ active_lanes[i] = active_lanes[j]) => i = j

\* the second row lists twice the parent that the first row left pending:
\* both connections lead to the lane that holds it, and it is held once
C35_Witness ==
    /\ pc = "route"
    /\ row = 1
    /\ parent_idx = 2
    /\ Len(commits[1].parent_oids) >= 1
    /\ commits[2].parent_oids[1] = commits[2].parent_oids[2]
    /\ commits[1].parent_oids[1] = commits[2].parent_oids[1]
    /\ Len(connections) = 2
    /\ connections[1].target_lane = connections[2].target_lane
    /\ PendingCount(active_lanes) = 1

\* the fields of the ColorAssigner
assignerState ==
    <<lane_colors, lane_last_color, next_color_index, reserved_colors,
      recent_assignments, current_row, current_fork_colors,
      color_usage_count, main_lane>>

\* C40: continue_lane(L) on the main lane returns colour 9 and changes no
\* state; on another lane that holds a colour it returns that colour and
\* changes no state; on a lane without a colour it does what assign_color(L)
\* does
C40_ContinueLane ==
    [][\A l \in ColorLanes :
          (returned'.op = "continue_lane" /\ returned'.lane = <<l>>) =>
              IF main_lane = <<l>>
              THEN /\ returned'.color = <<MAIN_BRANCH_COLOR>>
                   /\ UNCHANGED assignerState
              ELSE IF GetLaneColorIndex(lane_colors, l) # <<>>
              THEN /\ returned'.color = GetLaneColorIndex(lane_colors, l)
                   /\ UNCHANGED assignerState
              ELSE AssignColorAdvanced(l, FALSE, FALSE, "continue_lane")]_vars

\* continue_lane in row 1 on the lane whose only assignment was in row 0: it
\* returned the colour the lane holds
C40_Witness ==
    /\ returned.op = "continue_lane"
    /\ returned.lane # main_lane
    /\ current_row = 1
    /\ Len(recent_assignments) = 1
    /\ recent_assignments[1].row = 0
    /\ returned.lane = <<recent_assignments[1].lane>>
    /\ returned.color = <<recent_assignments[1].color>>

(***************************************************************************)
(* App properties.  A step of SpecApp is one handled action: handled' names *)
(* the action of the step, and mode (unprimed) the mode it was handled in.  *)
(***************************************************************************)

\* the number of rows of the layout on screen
NodeCount == Len(graph_layout.nodes)

\* the step handles action a in Normal mode
NormalStep(a) == mode.kind = "Normal" /\ handled'.action = a

\* the delta that handle_normal_action passes to move_selection
DeltaOf(a) ==
    CASE a = "MoveUp" -> -1
      [] a = "MoveDown" -> 1
      [] a = "PageUp" -> -10
      [] a = "PageDown" -> 10

\* the selection is set and names a row of the layout (row 0 of an empty one)
SelectionInRange ==
    /\ selected # <<>>
    /\ selected[1] >= 0
    /\ IF NodeCount = 0 THEN selected[1] = 0 ELSE selected[1] <= NodeCount - 1

\* a move_selection(delta) step ends at the current index plus delta, clamped
MoveClamps ==
    \A a \in {"MoveUp", "MoveDown", "PageUp", "PageDown"} :
        NormalStep(a) =>
            LET target == selected[1] + DeltaOf(a)
            IN  selected' =
                    << IF NodeCount = 0 \/ target < 0 THEN 0
                       ELSE IF target > NodeCount - 1 THEN NodeCount - 1
                       ELSE target >>

\* C22: the selection index is always set and lies in [0, node_count - 1]
\* (0 for an empty layout), and move_selection(delta) sets it to the current
\* index plus delta clamped to that range
C22_SelectionStaysInRange ==
    []SelectionInRange /\ [][MoveClamps]_vars

\* a PageDown from the first row of a three-row layout was clamped to the last
C22_Witness ==
    /\ handled.action = "PageDown"
    /\ handled.from = <<0>>
    /\ NodeCount = 3
    /\ selected = <<2>>

\* the rows of the layout that carry a branch name
Labelled ==
    {i \in 0..(NodeCount - 1) : graph_layout.nodes[i + 1].branch_names # <<>>}

\* C23: jump_to_next_branch selects the first row after the current one with
\* a non-empty branch_names, jump_to_prev_branch the last such row before it,
\* and neither changes the selection when there is no such row
C23_JumpsToNearestLabelledRow ==
    [][ /\ NormalStep("NextBranch") =>
            LET later == {i \in Labelled : i > selected[1]}
            IN  IF later = {} THEN selected' = selected
                ELSE /\ selected'[1] \in later
                     /\ \A i \in later : selected'[1] <= i
        /\ NormalStep("PrevBranch") =>
            LET earlier == {i \in Labelled : i < selected[1]}
            IN  IF earlier = {} THEN selected' = selected
                ELSE /\ selected'[1] \in earlier
                     /\ \A i \in earlier : selected'[1] >= i ]_vars

\* a jump from the first row over a row without names to the third row
C23_Witness ==
    /\ handled.action = "NextBranch"
    /\ handled.from = <<0>>
    /\ selected = <<2>>
    /\ NodeCount = 3
    /\ graph_layout.nodes[2].branch_names = <<>>

\* C24: selected_branch returns the branch whose name is the first entry of
\* branch_names of the selected row, and nothing when the row has no names;
\* it never returns another branch that shares the tip commit
C24_SelectedBranchIsFirstName ==
    LET node == SelectedCommitNode(graph_layout, selected)
        found == SelectedBranch(graph_layout, branches, selected)
    IN  IF node = <<>> \/ node[1].branch_names = <<>>
        THEN found = <<>>
        ELSE /\ found # <<>>
             /\ \E b \in DOMAIN branches : found[1] = branches[b]
             /\ found[1].name = node[1].branch_names[1]
             /\ \A b \in DOMAIN branches :
                    (/\ branches[b].tip_oid = found[1].tip_oid
                     /\ branches[b].name # node[1].branch_names[1])
                        => found[1] # branches[b]

\* Merge on a row that carries two names asks to confirm for the first one
C24_Witness ==
    /\ mode.kind = "Confirm"
    /\ mode.action = "Merge"
    /\ SelectedCommitNode(graph_layout, selected) # <<>>
    /\ Len(SelectedCommitNode(graph_layout, selected)[1].branch_names) = 2
    /\ mode.name =
           SelectedCommitNode(graph_layout, selected)[1].branch_names[1]

\* C25: a handler that returns an error (a failed fetch of refresh, a failed
\* checkout, merge, rebase or branch operation) leaves graph_layout and the
\* selection untouched, and the layout is replaced only by a refresh whose
\* two fetches both succeeded
C25_FailureLeavesLayout ==
    [][ /\ ~handled'.ok =>
            /\ graph_layout' = graph_layout
            /\ selected' = selected
        /\ graph_layout' # graph_layout =>
            /\ handled'.ok
            /\ handled'.action \in {"Refresh", "Checkout", "Confirm"} ]_vars

\* a failed confirmed operation: get_commits of its refresh had succeeded
\* and get_branches failed, so the commits are new and the layout is the old
C25_Witness ==
    /\ handled.action = "Confirm"
    /\ ~handled.ok
    /\ mode.kind = "Confirm"
    /\ Len(commits) > NodeCount
    /\ selected = <<NodeCount - 1>>
    /\ NodeCount >= 2

\* C36 as stated: between any two handled actions graph_layout equals
\* build_graph(commits, branches), also after a refresh whose commit fetch
\* succeeded and whose branch fetch failed
C36_LayoutOfSnapshot ==
    graph_layout = BuildGraph(commits, branches)

\* what the App holds of the repository, and its layout and selection
appData == <<commits, branches, head, graph_layout, selected>>

\* the step handles action a in Confirm mode
ConfirmStep(a) == mode.kind = "Confirm" /\ handled'.action = a

\* C37: in Confirm mode, Confirm leaves for Normal mode only when the pending
\* operation and the refresh after it both succeeded, and on a failure the
\* error is returned and the mode stays Confirm with the same pending action;
\* Cancel returns to Normal mode and touches nothing else; every other action
\* leaves the mode and all data unchanged
C37_ConfirmModeHandling ==
    [][/\ ConfirmStep("Confirm") =>
             /\ handled'.ok =>
                   /\ mode' = NormalMode
                   /\ graph_layout' = BuildGraph(commits', branches')
             /\ ~handled'.ok => mode' = mode
       /\ ConfirmStep("Cancel") =>
             /\ mode' = NormalMode
             /\ handled'.ok
             /\ UNCHANGED <<appData, should_quit>>
       /\ (mode.kind = "Confirm"
             /\ handled'.action \notin {"Confirm", "Cancel"}) =>
             /\ handled'.ok
             /\ UNCHANGED <<mode, appData, should_quit>>]_vars

\* a confirmed rebase failed: the dialog still asks about the same branch
C37_Witness ==
    /\ handled.action = "Confirm"
    /\ ~handled.ok
    /\ mode = ConfirmMode("Rebase", "dev")

\* the positions in branches of the branches with a given name
Named(name) == {k \in DOMAIN branches : branches[k].name = name}

\* the branch a name resolves to: the first of branches with that name
Resolved(name) == branches[SetMin(Named(name))]

\* C38: Confirm mode is entered for DeleteBranch only when the branch of the
\* selected row exists and is neither the HEAD branch nor a remote branch,
\* and for Merge or Rebase only when it exists and is not the HEAD branch;
\* so a pending ConfirmAction never names the HEAD branch and a pending
\* DeleteBranch never names a remote branch
C38_ConfirmNeverNamesHead ==
    /\ [](mode.kind = "Confirm" =>
            /\ Named(mode.name) # {}
            /\ ~Resolved(mode.name).is_head
            /\ mode.action = "DeleteBranch" => ~Resolved(mode.name).is_remote)
    /\ [][(mode.kind # "Confirm" /\ mode'.kind = "Confirm") =>
             LET b == SelectedBranch(graph_layout, branches, selected)
             IN  /\ mode.kind = "Normal"
                 /\ handled'.action \in {"DeleteBranch", "Merge", "Rebase"}
                 /\ mode'.action = handled'.action
                 /\ b # <<>>
                 /\ mode'.name = b[1].name
                 /\ ~b[1].is_head
                 /\ mode'.action = "DeleteBranch" => ~b[1].is_remote]_vars

\* a merge of the remote branch waits for confirmation while HEAD is on main
C38_Witness ==
    /\ mode = ConfirmMode("Merge", "origin/main")
    /\ \E b \in DOMAIN branches : branches[b].is_head

\* C39: should_quit becomes true only by Quit handled in Normal mode and is
\* never reset; in Help mode Quit, Cancel and ToggleHelp only return to
\* Normal mode; in Help, Input and Confirm modes no action sets should_quit
\* and no navigation action moves the selection
C39_QuitOnlyInNormalMode ==
    [][/\ should_quit' # should_quit =>
             /\ should_quit'
             /\ mode.kind = "Normal"
             /\ handled'.action = "Quit"
       /\ (mode.kind = "Help"
             /\ handled'.action \in {"Quit", "Cancel", "ToggleHelp"}) =>
             /\ mode' = NormalMode
             /\ UNCHANGED <<appData, should_quit>>
       /\ mode.kind # "Normal" =>
             /\ should_quit' = should_quit
             /\ handled'.action \in
                    {"MoveUp", "MoveDown", "PageUp", "PageDown", "GoToTop",
                     "GoToBottom", "NextBranch", "PrevBranch"}
                  => selected' = selected]_vars

\* Quit was handled in Help mode: back in Normal mode, not quitting
C39_Witness ==
    /\ handled.action = "Quit"
    /\ mode = NormalMode
    /\ ~should_quit

====
